---- MODULE Spec2Model ----
(***************************************************************************)
(* Steam_to_Notion: the Steam Web API client (src/src/api/steam/steamapi)  *)
(* and the glue around it (src/src, src/main.py).                          *)
(*                                                                         *)
(* Specifications sharing this module:                                     *)
(*   SpecCache  the TTL cached_property descriptor, store() and expire()   *)
(*              acting on the _cache mappings of the domain objects;       *)
(*   SpecApi    the attribute-path resolver (APIInterface / APICall), the  *)
(*              request it forms, errors.check and the envelope rule;      *)
(*   SpecWrap   the APIResponse wrapper over a JSON value;                 *)
(*   SpecStrict the resolver built from the manifest, strict and not;      *)
(*   SpecConn   the APIConnection singleton;                               *)
(*   SpecChunk  chunker and the friends prefetch;                          *)
(*   SpecNotion the request helper of the Notion client (src/src);         *)
(*   SpecImport the batch import into Notion and the driver's report;      *)
(*   SpecFetch  the library fetch and its cache file;                      *)
(*   SpecRetry  the retry decorator;                                       *)
(*   SpecAch    the achievements of an app and their cached fields;        *)
(*   SpecThreads Singleton.__call__ under concurrent callers;              *)
(*   SpecRun    the driver's run, step by step.                            *)
(* Each specification leaves the variables of the others unchanged.        *)
(***************************************************************************)
EXTENDS Integers, Sequences, FiniteSets, TLC

VARIABLES
    now,        \* time.time(), in abstract ticks
    classCache, \* SteamObject._cache: the dict bound to the class attribute
    hasInst,    \* hasInst[o]: o.__dict__ holds a "_cache" of its own
    instCache,  \* instCache[o]: that dict (empty while hasInst[o] is false)
    done,       \* done[o][p]: completed fget calls on o for p since p was last deleted from o's mapping
    last        \* what the last operation did (its inputs, the entry it found, its result)

cacheVars == <<now, classCache, hasInst, instCache, done, last>>

(***************************************************************************)
(* Bounds and program constants                                            *)
(***************************************************************************)
MaxTime == 3
ShortTtl == 1
INFINITE == 0

Objects == {"u1", "u2", "app", "node"}
Props == {"name", "_summary", "_full_name"}

\* The class of each object: two SteamUser(userid), one SteamApp, one APICall.
ClassOf(o) == IF o \in {"u1", "u2"} THEN "SteamUser"
              ELSE IF o = "app" THEN "SteamApp" ELSE "APICall"

\* class SteamObject and its subclasses
IsSteamObject(o) == ClassOf(o) \in {"SteamUser", "SteamApp"}

\* The cached properties each class declares.
PropsOf(o) == IF ClassOf(o) = "SteamUser" THEN {"name", "_summary"}
              ELSE IF ClassOf(o) = "SteamApp" THEN {"name"} ELSE {"_full_name"}

\* The ttl given to the decorator of each property (2 * HOUR, scaled, for _summary).
Ttl(p) == IF p = "_summary" THEN ShortTtl ELSE INFINITE

NoValue == [of |-> "-", at |-> 0]
NoEntry == [present |-> FALSE, value |-> NoValue, ts |-> 0]
\* A key that was deleted: absent like NoEntry, and told apart from a key never set.
Deleted == [present |-> FALSE, value |-> NoValue, ts |-> -1]
EmptyDict == [p \in Props |-> NoEntry]

\* The tuple (value, time) a cache mapping holds.
Entry(v, t) == [present |-> TRUE, value |-> v, ts |-> t]

\* What the wrapped function computes for inst when invoked at time t.
fget(inst, t) == [of |-> inst, at |-> t]

(***************************************************************************)
(* cached_property.__get__, store, expire                                  *)
(***************************************************************************)
\* hasattr(inst, "_cache"): the instance's own attribute, else the class attribute.
hasattr_cache(o) == hasInst[o] \/ IsSteamObject(o)

\* inst._cache: attribute lookup finds the instance's dict before the class's.
cache_of(o) == IF hasInst[o] THEN instCache[o] ELSE classCache

\* Stale with the boundary on the wrong side: an entry aged exactly ttl is dropped.
StaleAtTtl(t, last_update, ttl) == (t - last_update >= ttl) /\ (ttl > 0)

\* Stale without the "> 0" half of the chained comparison: ttl = 0 expires too.
StaleNoInfinite(t, last_update, ttl) == t - last_update > ttl

\* now - last_update > self.ttl > 0
Stale(t, last_update, ttl) == (t - last_update > ttl) /\ (ttl > 0)

\* obj._cache[p] = e (e = Deleted: del obj._cache[p]) on the dict the lookup finds,
\* given which objects hold a dict of their own (own).
SetItem(own, o, p, e) ==
    IF own[o]
    THEN /\ instCache' = [instCache EXCEPT ![o][p] = e]
         /\ UNCHANGED classCache
    ELSE /\ classCache' = [classCache EXCEPT ![p] = e]
         /\ UNCHANGED instCache

\* The objects whose _cache is the same dict as o's.
Sharing(o) == IF hasInst[o] THEN {o}
              ELSE {x \in Objects : IsSteamObject(x) /\ ~hasInst[x]}

Bump(n) == IF n < 2 THEN n + 1 ELSE 2

Op(op, o, p, pre, calls, ret, raised) ==
    [op |-> op, obj |-> o, prop |-> p, t |-> now, pre |-> pre,
     calls |-> calls, ret |-> ret, raised |-> raised]

\* time.time() advances between operations.
Tick ==
    /\ now < MaxTime
    /\ now' = now + 1
    /\ last' = [Op("tick", "-", "-", NoEntry, 0, NoValue, "no") EXCEPT !.t = now + 1]
    /\ UNCHANGED <<classCache, hasInst, instCache, done>>

\* A raising fget that takes the entry it was called over out of the mapping.
FgetRaisesAndDrops(own, o, p) == SetItem(own, o, p, Deleted)

\* value = self.fget(inst) raises: the assignment to the mapping after it is
\* not reached.
FgetRaises(own, o, p) == UNCHANGED <<classCache, instCache>>

\* cached_property.__get__(inst = o) of the property named p; the wrapped
\* function either returns (ok) or raises.
Get(o, p) ==
    /\ p \in PropsOf(o)
    /\ LET created == ~hasattr_cache(o)
           own == [hasInst EXCEPT ![o] = @ \/ created]
           entry == cache_of(o)[p]
           miss == ~entry.present \/ Stale(now, entry.ts, Ttl(p))
       IN  /\ hasInst' = own
           /\ IF ~miss
              THEN /\ last' = Op("read", o, p, entry, 0, entry.value, "no")
                   /\ UNCHANGED <<classCache, instCache, done>>
              ELSE \E ok \in BOOLEAN :
                   IF ok
                   THEN /\ SetItem(own, o, p, Entry(fget(o, now), now))
                        /\ done' = [done EXCEPT ![o][p] = IF Ttl(p) = INFINITE THEN Bump(@) ELSE @]
                        /\ last' = Op("read", o, p, entry, 1, fget(o, now), "no")
                   ELSE /\ FgetRaises(own, o, p)
                        /\ UNCHANGED done
                        /\ last' = Op("read", o, p, entry, 1, NoValue, "fget")
    /\ UNCHANGED now

\* The received_time arguments tried: every caller leaves the default, 0.
ReceivedTimes == {0}

\* store(obj = o, property_name = p, data, received_time); data is a value the
\* caller has just obtained for o.
store(o, p, received_time) ==
    /\ p \in PropsOf(o)
    /\ LET rt == IF received_time = 0 THEN now ELSE received_time
           data == fget(o, now)
       IN  IF IsSteamObject(o) \/ hasattr_cache(o)
           THEN /\ SetItem(hasInst, o, p, Entry(data, rt))
                /\ last' = Op("store", "-", "-", NoEntry, 0, NoValue, "no")
           ELSE /\ UNCHANGED <<classCache, instCache>>
                /\ last' = Op("store", "-", "-", NoEntry, 0, NoValue, "TypeError")
    /\ UNCHANGED <<now, hasInst, done>>

\* expire(obj = o, property_name = p), which is del obj._cache[p]
expire(o, p) ==
    /\ p \in PropsOf(o)
    /\ IF IsSteamObject(o) \/ hasattr_cache(o)
       THEN IF cache_of(o)[p].present
            THEN /\ SetItem(hasInst, o, p, Deleted)
                 /\ done' = [x \in Objects |->
                               IF x \in Sharing(o) THEN [done[x] EXCEPT ![p] = 0] ELSE done[x]]
                 /\ last' = Op("expire", "-", "-", NoEntry, 0, NoValue, "no")
            ELSE /\ UNCHANGED <<classCache, instCache, done>>
                 /\ last' = Op("expire", "-", "-", NoEntry, 0, NoValue, "KeyError")
       ELSE /\ UNCHANGED <<classCache, instCache, done>>
            /\ last' = Op("expire", "-", "-", NoEntry, 0, NoValue, "TypeError")
    /\ UNCHANGED <<now, hasInst>>

\* The objects as their constructors leave them: SteamUser(userid) and
\* SteamApp(appid) set no _cache of their own, and an APICall has none at all.
InitCache ==
    /\ now = 1
    /\ classCache = EmptyDict
    /\ hasInst = [o \in Objects |-> FALSE]
    /\ instCache = [o \in Objects |-> EmptyDict]
    /\ done = [o \in Objects |-> [p \in Props |-> 0]]
    /\ last = Op("init", "-", "-", NoEntry, 0, NoValue, "no")

(***************************************************************************)
(* JSON values and the APIResponse wrapper (core.py, class APIResponse)    *)
(***************************************************************************)
\* A JSON value is a record: t = "s" a scalar (s its text), "o" an object
\* (keys[i] maps to items[i]), "a" an array (items). After wrapping, "w" is
\* an APIResponse (its _real_dictionary as keys/items) and "a" a Python list.
JS(text) == [t |-> "s", s |-> text, keys |-> <<>>, items |-> <<>>]
JO(ks, vs) == [t |-> "o", s |-> "", keys |-> ks, items |-> vs]
JA(vs) == [t |-> "a", s |-> "", keys |-> <<>>, items |-> vs]
JNone == [t |-> "none", s |-> "", keys |-> <<>>, items |-> <<>>]

\* An exception leaving the operation instead of a value; s names its class.
Raise(e) == [t |-> "raise", s |-> e, keys |-> <<>>, items |-> <<>>]

\* The position of key k in an object's keys, 0 when absent.
KeyPos(ks, k) == IF \E i \in 1..Len(ks) : ks[i] = k
                 THEN CHOOSE i \in 1..Len(ks) : ks[i] = k ELSE 0

RECURSIVE APIResponse(_)
RECURSIVE wrap_list(_)
RECURSIVE WrapItems(_)

\* One pass of the loops of __init__ and _wrap_list: a dict becomes an
\* APIResponse, a list goes through _wrap_list, anything else is kept.
WrapItems(items) ==
    IF Len(items) = 0 THEN <<>>
    ELSE LET item == Head(items)
         IN  <<IF item.t = "o" THEN APIResponse(item)
               ELSE IF item.t = "a" THEN wrap_list(item)
               ELSE item>> \o WrapItems(Tail(items))

\* APIResponse.__init__(father_dict): _real_dictionary holds every key with
\* its value wrapped. The loop is "for item in father_dict: father_dict[item]":
\* over an empty list it does nothing, over a list of strings or containers,
\* over a string, a number or None it raises TypeError.
APIResponse(father_dict) ==
    IF father_dict.t = "o"
    THEN [t |-> "w", s |-> "", keys |-> father_dict.keys, items |-> WrapItems(father_dict.items)]
    ELSE IF father_dict.t = "a" /\ father_dict.items = <<>>
    THEN [t |-> "w", s |-> "", keys |-> <<>>, items |-> <<>>]
    ELSE Raise("TypeError")

\* APIResponse._wrap_list(original_list): a new list of the wrapped elements.
wrap_list(original_list) ==
    [t |-> "a", s |-> "", keys |-> <<>>, items |-> WrapItems(original_list.items)]

(***************************************************************************)
(* Reads of an APIResponse                                                 *)
(***************************************************************************)
VARIABLES
    wsrc,   \* the structure handed to APIResponse(...)
    wobj,   \* the wrapper built from it
    orig,   \* the part of wsrc that the same lookups reach (JNone: none)
    cur,    \* the value the caller's chain of reads has reached
    wres    \* the last read: the value read, its key or index, its outcome

wrapVars == <<wsrc, wobj, orig, cur, wres>>

\* The key strings tried, the names among them that begin with an underscore,
\* and those that object.__getattribute__ finds on the class.
Keys == {"k", "players", "zz", "_k", "_real_dictionary", "_wrap_list"}
Underscored == {"_k", "_real_dictionary", "_wrap_list", "__dict__"}
ClassAttrs == {"_wrap_list"}

\* item.startswith("_")
startswith_underscore(item) == item \in Underscored

\* The plain dict that _real_dictionary is, and a function found on the class.
RealDictionary(w) == [t |-> "d", s |-> "", keys |-> w.keys, items |-> w.items]
JFunction(name) == [t |-> "f", s |-> name, keys |-> <<>>, items |-> <<>>]

\* APIResponse.__getattribute__(item)
getattribute(w, item) ==
    IF item = "__dict__" THEN RealDictionary(w)
    ELSE IF startswith_underscore(item)
    THEN IF item = "_real_dictionary" THEN RealDictionary(w)
         ELSE IF item \in ClassAttrs THEN JFunction(item)
         ELSE Raise("AttributeError")
    ELSE IF KeyPos(w.keys, item) # 0 THEN w.items[KeyPos(w.keys, item)]
    ELSE Raise("AttributeError")

\* APIResponse.__getitem__(item)
getitem(w, item) ==
    IF KeyPos(w.keys, item) # 0 THEN w.items[KeyPos(w.keys, item)] ELSE Raise("KeyError")

\* item in wrapper, which Python answers by APIResponse.__iter__
contains(w, item) == KeyPos(w.keys, item) # 0

Raised(result) == IF result.t = "raise" THEN result.s ELSE "no"
Returned(result) == IF result.t = "raise" THEN JNone ELSE result

Read(op, on, key, idx, had, want, result, member) ==
    [op |-> op, on |-> on, key |-> key, idx |-> idx, had |-> had, want |-> want,
     raised |-> Raised(result), ret |-> Returned(result), member |-> member]

\* The value a direct lookup of key on the original gives, JNone when it has none.
Lookup(o, key) ==
    IF o.t = "o" /\ KeyPos(o.keys, key) # 0 THEN o.items[KeyPos(o.keys, key)] ELSE JNone

\* A read that returned moves the chain on; one that raised leaves it.
Step(op, key, result) ==
    LET had == orig.t = "o" /\ KeyPos(orig.keys, key) # 0
    IN  /\ wres' = Read(op, cur, key, 0, had, Lookup(orig, key), result, contains(cur, key))
        /\ cur' = IF result.t = "raise" THEN cur ELSE result
        /\ orig' = IF result.t = "raise" THEN orig ELSE Lookup(orig, key)
        /\ UNCHANGED <<wsrc, wobj>>

\* wrapper.<key>
GetAttr(key) == cur.t = "w" /\ Step("attr", key, getattribute(cur, key))

\* wrapper[key]
GetItem(key) == cur.t = "w" /\ Step("item", key, getitem(cur, key))

\* key in wrapper
Contains(key) ==
    /\ cur.t = "w"
    /\ wres' = Read("in", cur, key, 0, orig.t = "o" /\ KeyPos(orig.keys, key) # 0,
                    Lookup(orig, key), JNone, contains(cur, key))
    /\ UNCHANGED <<wsrc, wobj, orig, cur>>

\* list[i - 1] on a list inside the wrapper
Index(i) ==
    /\ cur.t = "a"
    /\ LET had == orig.t = "a" /\ i <= Len(orig.items)
           result == IF i <= Len(cur.items) THEN cur.items[i] ELSE Raise("IndexError")
       IN  /\ wres' = Read("idx", cur, "-", i, had, IF had THEN orig.items[i] ELSE JNone,
                           result, FALSE)
           /\ cur' = IF result.t = "raise" THEN cur ELSE result
           /\ orig' = IF result.t = "raise" THEN orig ELSE IF had THEN orig.items[i] ELSE JNone
    /\ UNCHANGED <<wsrc, wobj>>

\* The caller starts another chain at the wrapper.
Restart ==
    /\ cur # wobj
    /\ cur' = wobj /\ orig' = wsrc
    /\ wres' = Read("top", JNone, "-", 0, FALSE, JNone, JNone, FALSE)
    /\ UNCHANGED <<wsrc, wobj>>

\* The structures wrapped: objects holding lists holding objects, with keys
\* that do and do not begin with an underscore.
Structures ==
    {JO(<<"players", "k">>,
        <<JA(<<JO(<<"k">>, <<JS("kali")>>), JA(<<JS("1")>>), JS("2")>>), JS("3")>>),
     JO(<<"_k", "k">>, <<JS("1"), JO(<<"k">>, <<JS("2")>>)>>),
     JO(<<"k">>, <<JO(<<"_k">>, <<JA(<<JO(<<"k">>, <<JS("x")>>)>>)>>)>>),
     JO(<<"_real_dictionary", "players">>, <<JS("3"), JA(<<>>)>>),
     JO(<<>>, <<>>)}

InitWrap ==
    /\ wsrc \in Structures
    /\ wobj = APIResponse(wsrc)
    /\ orig = wsrc
    /\ cur = wobj
    /\ wres = Read("top", JNone, "-", 0, FALSE, JNone, JNone, FALSE)

\* No wrapper in use.
IdleWrap ==
    /\ wsrc = JO(<<>>, <<>>)
    /\ wobj = APIResponse(wsrc)
    /\ orig = wsrc
    /\ cur = wobj
    /\ wres = Read("top", JNone, "-", 0, FALSE, JNone, JNone, FALSE)

(***************************************************************************)
(* The attribute-path resolver: APIInterface, APICall, APIConnection.call  *)
(***************************************************************************)
VARIABLES
    api_key,   \* APIInterface._api_key ("None": no credential)
    autopop,   \* the root was built with autopopulate = True
    strict,    \* APIInterface._strict
    rootDict,  \* the APICall attributes in the APIInterface's __dict__, by name (0: none)
    rootAttrs, \* the names of the other attributes the caller has set on the APIInterface
    nodes,     \* every APICall built so far; a node is named by its index
    connKey,   \* APIConnection._api_key, the singleton's credential
    res        \* what the last operation did: the request sent, the outcome, the result

apiVars == <<api_key, autopop, strict, rootDict, rootAttrs, nodes, connKey, res>>

\* The APICall objects alive at once, the manifest's three included.
MaxNodes == 4

\* Attribute names: the keys a node's __dict__ may hold for registered children.
Names == {"a", "b", "v1"}
GET == "GET"
POST == "POST"

\* APIInterface._query_template: "{proto}://{domain}/", one token.
Base == "B"

\* APICall.__init__(api_id, parent, method); path records the attribute reads that led to it.
APICall(api_id, parent, method, path) ==
    [api_id |-> api_id, parent |-> parent, is_registered |-> FALSE, method |-> method,
     cached_key |-> "None", dict |-> [nm \in Names |-> 0], path |-> path]

\* A variant that forgets the parents: the root's template and the last name.
StrLastOnly(ns, n) == <<Base, ns[n].api_id, "/">>

RECURSIVE Str(_, _)
\* APICall.__str__: the parent's text (the root's template) then "name/".
Str(ns, n) ==
    IF ns[n].parent = 0
    THEN <<Base, ns[n].api_id, "/">>
    ELSE Str(ns, ns[n].parent) \o <<ns[n].api_id, "/">>

RECURSIVE ApiKey(_, _)
\* APICall._api_key: the cached key, else the parent's (the root's at the top).
ApiKey(ns, n) ==
    IF ns[n].cached_key # "None" THEN ns[n].cached_key
    ELSE IF ns[n].parent = 0 THEN api_key
    ELSE ApiKey(ns, ns[n].parent)

RECURSIVE CacheKey(_, _)
\* The property's side effect: each node asked stores what its parent answered.
CacheKey(ns, n) ==
    IF ns[n].cached_key # "None" THEN ns
    ELSE IF ns[n].parent = 0 THEN [ns EXCEPT ![n].cached_key = api_key]
    ELSE LET up == CacheKey(ns, ns[n].parent)
         IN  [up EXCEPT ![n].cached_key = ApiKey(up, ns[n].parent)]

RECURSIVE RegisterRaises(_, _, _)
\* APICall._register(self = n, apicall_child = c), c = 0 for None: whether it
\* raises KeyError, here or in a parent (checked before anything is assigned).
RegisterRaises(ns, n, c) ==
    \/ c # 0 /\ ns[n].dict[ns[c].api_id] # 0 /\ ns[n].dict[ns[c].api_id] # c
    \/ ns[n].parent # 0 /\ RegisterRaises(ns, ns[n].parent, n)

RECURSIVE Register(_, _, _)
\* APICall._register when it does not raise: the nodes afterwards.
Register(ns, n, c) ==
    LET up == IF ns[n].parent # 0 THEN Register(ns, ns[n].parent, n)
              ELSE [ns EXCEPT ![n].is_registered = TRUE]
    IN  IF c = 0 THEN up
        ELSE [up EXCEPT ![n].dict[ns[c].api_id] = c, ![c].is_registered = TRUE]

(***************************************************************************)
(* Keyword arguments and the request                                       *)
(***************************************************************************)
\* An argument value: kind "list", "bool", "str" or "int"; v its text, a list's
\* elements one by one, a joined list's text token by token.
VList(xs) == [kind |-> "list", v |-> xs]
VBool(b) == [kind |-> "bool", v |-> IF b THEN <<"True">> ELSE <<"False">>]
VStr(x) == [kind |-> "str", v |-> <<x>>]
VInt(x) == [kind |-> "int", v |-> <<x>>]

\* kwargs is a Python dict: keys in insertion order, a[k] = v keeps k's place.
Kw(k, v) == [k |-> k, v |-> v]
HasKw(kw, k) == \E i \in 1..Len(kw) : kw[i].k = k
GetKw(kw, k) == kw[CHOOSE i \in 1..Len(kw) : kw[i].k = k].v
RECURSIVE Replace(_, _, _)
Replace(kw, k, v) ==
    IF Len(kw) = 0 THEN <<>>
    ELSE <<IF Head(kw).k = k THEN Kw(k, v) ELSE Head(kw)>> \o Replace(Tail(kw), k, v)
SetKw(kw, k, v) == IF HasKw(kw, k) THEN Replace(kw, k, v) ELSE Append(kw, Kw(k, v))

RECURSIVE Join(_)
\* ",".join(xs)
Join(xs) == IF Len(xs) = 0 THEN <<>>
            ELSE IF Len(xs) = 1 THEN <<xs[1]>>
            ELSE <<xs[1], ",">> \o Join(Tail(xs))

\* A variant that leaves booleans as they came.
ConvertValueKeepBool(val) ==
    IF val.kind = "list" THEN [kind |-> "str", v |-> Join(val.v)] ELSE val

\* One argument of _convert_arguments: a list is joined, a bool becomes 1 or 0.
ConvertValue(val) ==
    IF val.kind = "list" THEN [kind |-> "str", v |-> Join(val.v)]
    ELSE IF val.kind = "bool" THEN VInt(IF val.v = <<"True">> THEN "1" ELSE "0")
    ELSE val

RECURSIVE convert_arguments(_)
\* APICall._convert_arguments(kwargs), and the same loop in APIConnection.call
convert_arguments(kwargs) ==
    IF Len(kwargs) = 0 THEN <<>>
    ELSE <<Kw(Head(kwargs).k, ConvertValue(Head(kwargs).v))>> \o convert_arguments(Tail(kwargs))

RECURSIVE QueryString(_, _)
\* The query string that requests appends for params: ?k=v&k=v...
QueryString(kw, first) ==
    IF Len(kw) = 0 THEN <<>>
    ELSE <<IF first THEN "?" ELSE "&", Head(kw).k, "=">> \o (Head(kw).v.v)
         \o QueryString(Tail(kw), FALSE)

\* requests.request(method, query, data = kwargs) when method is POST, else
\* requests.request(method, query, params = kwargs): the request that leaves.
Request(method, query, kwargs) ==
    IF method = POST
    THEN [verb |-> method, path |-> query, url |-> query, params |-> <<>>, data |-> kwargs]
    ELSE [verb |-> method, path |-> query, url |-> query \o QueryString(kwargs, TRUE),
          params |-> kwargs, data |-> <<>>]

\* A variant that sends the request a second time.
SendTwice(method, query, kwargs) ==
    <<Request(method, query, kwargs), Request(method, query, kwargs)>>

\* The requests one invocation sends.
Send(method, query, kwargs) == <<Request(method, query, kwargs)>>

NoRequest == [verb |-> "-", path |-> <<>>, url |-> <<>>, params |-> <<>>, data |-> <<>>]

(***************************************************************************)
(* errors.check                                                            *)
(***************************************************************************)
\* A variant that only looks at the first parameter.
HasKeyParamFirst(url) ==
    \E i \in 1..(Len(url) - 2) : url[i] = "?" /\ url[i + 1] = "key" /\ url[i + 2] = "="

\* "?key=" in url or "&key=" in url
HasKeyParam(url) ==
    \E i \in 1..(Len(url) - 2) : url[i] \in {"?", "&"} /\ url[i + 1] = "key" /\ url[i + 2] = "="

\* A check that lets every response pass.
CheckNothing(status_code, url) == "no"

\* errors.check(response): the exception class raised, "no" when it returns.
check(status_code, url) ==
    IF status_code \div 100 = 4
    THEN IF status_code = 404 THEN "APINotFound"
         ELSE IF status_code = 401 THEN "APIUnauthorized"
         ELSE IF status_code = 403
              THEN IF HasKeyParam(url) THEN "APIPrivate" ELSE "APIKeyRequired"
         ELSE IF status_code = 400 THEN "APIBadCall"
         ELSE "APIFailure"
    ELSE IF status_code \div 100 = 5 THEN "APIError"
    ELSE "no"

(***************************************************************************)
(* Attribute reads and invocations                                         *)
(***************************************************************************)
\* response.content, which the model does not look into.
JContent == [t |-> "content", s |-> "", keys |-> <<>>, items |-> <<>>]

\* The envelope rule of __call__ and call: a body whose only key is
\* "response" gives the wrapper of the inner value, any other the wrapper of all.
Unwrap(response_obj) ==
    IF Len(response_obj.keys) = 1 /\ KeyPos(response_obj.keys, "response") # 0
    THEN APIResponse(response_obj.items[KeyPos(response_obj.keys, "response")])
    ELSE APIResponse(response_obj)

Res(op, from, name, node, method, kwargs, sent, status, body, raised, auto, ret) ==
    [op |-> op, from |-> from, name |-> name, node |-> node, method |-> method,
     kwargs |-> kwargs, sent |-> sent, status |-> status, body |-> body,
     raised |-> raised, auto |-> auto, ret |-> ret]

ReadRes(from, name, node, raised) ==
    Res("getattr", from, name, node, "-", <<>>, <<>>, 0, JNone, raised, FALSE, JNone)

\* root.<name>: the attribute the root's __dict__ holds, else APIInterface.__getattr__(name).
RootGetAttr(name) ==
    /\ IF rootDict[name] # 0
       THEN /\ res' = ReadRes(0, name, rootDict[name], "no")
            /\ UNCHANGED <<rootDict, nodes>>
       ELSE IF strict
       THEN /\ res' = ReadRes(0, name, 0, "AttributeError")
            /\ UNCHANGED <<rootDict, nodes>>
       ELSE /\ Len(nodes) < MaxNodes
            /\ nodes' = Append(nodes, APICall(name, 0, "None", <<name>>))
            /\ rootDict' = [rootDict EXCEPT ![name] = Len(nodes) + 1]
            /\ res' = ReadRes(0, name, Len(nodes) + 1, "no")
    /\ UNCHANGED <<api_key, autopop, strict, rootAttrs, connKey>>

\* The attribute names a caller assigns on the root: none of them a service.
SetNames == {"x", "y"}

\* root.<name> = value: APIInterface.__setattr__(name, value)
RootSetAttr(name) ==
    /\ IF strict
       THEN /\ res' = Res("setattr", 0, name, 0, "-", <<>>, <<>>, 0, JNone,
                          "AttributeError", FALSE, JNone)
            /\ UNCHANGED rootAttrs
       ELSE /\ res' = Res("setattr", 0, name, 0, "-", <<>>, <<>>, 0, JNone, "no", FALSE, JNone)
            /\ rootAttrs' = rootAttrs \cup {name}
    /\ UNCHANGED <<api_key, autopop, strict, rootDict, nodes, connKey>>

\* The node a read of item off node n builds when n holds no such attribute.
NewChild(n, item) == APICall(item, n, "None", Append(nodes[n].path, item))

\* <node n>.<item>: APICall.__getattribute__(item) for a name without underscore.
NodeGetAttr(n, item) ==
    /\ n \in 1..Len(nodes)
    /\ IF nodes[n].dict[item] # 0
       THEN /\ res' = ReadRes(n, item, nodes[n].dict[item], "no")
            /\ UNCHANGED nodes
       ELSE /\ Len(nodes) < MaxNodes
            /\ nodes' = Append(nodes, NewChild(n, item))
            /\ res' = ReadRes(n, item, Len(nodes) + 1, "no")
    /\ UNCHANGED <<api_key, autopop, strict, rootDict, rootAttrs, connKey>>

\* The verb of the request: the node's bound method, else the caller's.
Verb(n, method) == IF nodes[n].method # "None" THEN nodes[n].method ELSE method

\* What the call returns, or raises, once the response passed check and the
\* node is registered.
Result(automatic_parsing, kwargs, body) ==
    IF automatic_parsing THEN Unwrap(body)
    ELSE IF GetKw(kwargs, "format") = VStr("json") THEN body
    ELSE JContent

\* APICall.__call__(self = n, method, **kwargs), the server answering (status, body)
Invoke(n, method, kwargs, status, body) ==
    /\ n \in 1..Len(nodes)
    /\ LET kw1 == convert_arguments(kwargs)
           automatic_parsing == ~HasKw(kw1, "format")
           kw2 == IF automatic_parsing THEN SetKw(kw1, "format", VStr("json")) ELSE kw1
           key == ApiKey(nodes, n)
           ns1 == CacheKey(nodes, n)
           kw3 == IF key # "None" THEN SetKw(kw2, "key", VStr(key)) ELSE kw2
           sent == Send(Verb(n, method), Str(nodes, n), kw3)
           err == check(status, sent[Len(sent)].url)
           result == Result(automatic_parsing, kw3, body)
           out(raised, ret) == Res("call", 0, "-", n, method, kwargs, sent, status,
                                   body, raised, automatic_parsing, ret)
       IN  IF err # "no"
           THEN /\ nodes' = ns1
                /\ res' = out(err, JNone)
           ELSE IF ns1[n].is_registered
           THEN /\ nodes' = ns1
                /\ res' = out(Raised(result), Returned(result))
           ELSE IF ns1[n].parent = 0
           THEN \* the APIInterface has no _register
                /\ nodes' = ns1
                /\ res' = out("AttributeError", JNone)
           ELSE IF RegisterRaises(ns1, ns1[n].parent, n)
           THEN /\ nodes' = ns1
                /\ res' = out("KeyError", JNone)
           ELSE /\ nodes' = Register(ns1, ns1[n].parent, n)
                /\ res' = out(Raised(result), Returned(result))
    /\ UNCHANGED <<api_key, autopop, strict, rootDict, rootAttrs, connKey>>

\* APIConnection.QUERY_TEMPLATE filled in
ConnQuery(interface, command, version) ==
    <<"S", interface, "/", command, "/", version, "/">>

\* APIConnection().call(interface, command, version, method, **kwargs)
call(interface, command, version, method, kwargs, status, body) ==
    /\ LET kw1 == convert_arguments(kwargs)
           automatic_parsing == ~HasKw(kw1, "format")
           kw2 == IF automatic_parsing THEN SetKw(kw1, "format", VStr("json")) ELSE kw1
           kw3 == IF connKey # "None" THEN SetKw(kw2, "key", VStr(connKey)) ELSE kw2
           sent == Send(method, ConnQuery(interface, command, version), kw3)
           err == check(status, sent[Len(sent)].url)
           out(raised, ret) == Res("conncall", 0, "-", 0, method, kwargs, sent, status,
                                   body, raised, automatic_parsing, ret)
       IN  IF err # "no" THEN res' = out(err, JNone)
           ELSE IF automatic_parsing
           THEN res' = out(Raised(Unwrap(body)), Returned(Unwrap(body)))
           ELSE res' = out("no", JNone)
    /\ UNCHANGED <<api_key, autopop, strict, rootDict, rootAttrs, nodes, connKey>>

(***************************************************************************)
(* Initial states of the resolver                                          *)
(***************************************************************************)
\* What _autopopulate_interfaces builds from a manifest that lists one
\* interface "a" with one method "b", version 1, httpmethod GET: the three
\* nodes, then method_object._register().
Manifest ==
    Register(<<APICall("a", 0, "None", <<"a">>),
               APICall("b", 1, GET, <<"a", "b">>),
               APICall("v1", 2, GET, <<"a", "b", "v1">>)>>, 3, 0)

NoRes == Res("init", 0, "-", 0, "-", <<>>, <<>>, 0, JNone, "no", FALSE, JNone)

\* APIInterface(api_key, autopopulate, strict): strict needs autopopulate.
InitApi ==
    /\ api_key \in {"None", "K"}
    /\ autopop \in BOOLEAN
    /\ strict \in BOOLEAN
    /\ strict => autopop
    /\ nodes = IF autopop THEN Manifest ELSE <<>>
    /\ rootDict = [nm \in Names |-> IF autopop /\ nm = "a" THEN 1 ELSE 0]
    /\ rootAttrs = {}
    /\ connKey \in {"None", "K"}
    /\ res = NoRes

\* No resolver in use.
IdleApi ==
    /\ api_key = "None" /\ autopop = FALSE /\ strict = FALSE
    /\ nodes = <<>> /\ rootDict = [nm \in Names |-> 0] /\ rootAttrs = {}
    /\ connKey = "None" /\ res = NoRes

(***************************************************************************)
(* Inputs                                                                  *)
(***************************************************************************)
PlayersBody == JO(<<"players">>, <<JA(<<JO(<<"personaname">>, <<JS("kali")>>)>>)>>)

\* Response bodies: the envelope alone, the envelope beside another key, a
\* single key that is not the envelope, an empty object, and the envelope
\* around a list.
Bodies == {JO(<<"response">>, <<PlayersBody>>),
           JO(<<"response", "extra">>, <<PlayersBody, JS("x")>>),
           JO(<<"apilist">>, <<PlayersBody>>),
           JO(<<>>, <<>>),
           JO(<<"response">>, <<JA(<<JS("x")>>)>>)}

OkStatuses == {200, 302}
ErrStatuses == {400, 401, 403, 404, 429, 500, 503}

KwargsSet == {<<>>,
              <<Kw("steamids", VList(<<"1", "2">>)), Kw("flag", VBool(TRUE))>>,
              <<Kw("key", VStr("mine")), Kw("flag", VBool(FALSE))>>,
              <<Kw("format", VStr("xml")), Kw("steamids", VStr("7"))>>,
              <<Kw("format", VStr("json"))>>}

EnvelopeBody == JO(<<"response">>, <<PlayersBody>>)

\* The invocations tried: every argument set with both verbs and a plain
\* success; every body and success status under automatic parsing; every
\* error status by both verbs.
CallInputs ==
    [method : {GET, POST}, kwargs : KwargsSet, status : {200}, body : {EnvelopeBody}]
    \cup [method : {GET}, kwargs : {<<>>}, status : OkStatuses, body : Bodies]
    \cup [method : {GET, POST}, kwargs : {<<>>}, status : ErrStatuses, body : {JNone}]

\* The few inputs used where the shape of the node tree is what matters.
FewResponses == {[status |-> 200, body |-> EnvelopeBody],
                 [status |-> 404, body |-> JNone]}

\* The names read in SpecApi, and the path the calls of SpecCall are made on.
ReadNames == {"a", "b"}
ChainPath == <<"a", "b", "v1">>
IsPrefix(p, q) == Len(p) <= Len(q) /\ \A i \in 1..Len(p) : p[i] = q[i]

(***************************************************************************)
(* The Notion request helper: NotionGameListV2._make_request               *)
(***************************************************************************)
VARIABLES
    nin,    \* the call: max_retries and what each request in turn meets
    nout    \* what the call did: requests sent, sleeps, the error or the response

notionVars == <<nin, nout>>

\* The default of max_retries, which every caller in the client uses.
MaxRetries == 3

\* The Retry-After of a 429 whose header is an integer, and the message of a
\* JSON error body.
RetryAfterSeconds == 7
BodyMessage == "body message"

\* What a request meets: a response (status, Retry-After header, body) or an
\* exception of requests.request.
Response(status, retry_after, body) ==
    [kind |-> "resp", status |-> status, retry_after |-> retry_after, body |-> body]
Failure(kind) == [kind |-> kind, status |-> 0, retry_after |-> "absent", body |-> "empty"]

\* An exception: its class, its code attribute (0: it has none), its message
\* (the Chinese texts of the source are given in English).
Exc(cls, code, message) == [cls |-> cls, code |-> code, message |-> message]
NoExc == Exc("none", 0, <<>>)

\* f"HTTP {status}"
HttpText(status) == <<"HTTP ", status>>

\* str(e) as the f-string of the last handler takes it: ServiceError.__str__
\* gives the class name, the message and the details.
StrExc(e) ==
    IF e.cls = "NotionApiError" THEN <<"NotionApiError", ": ">> \o e.message \o <<" [url, method]">>
    ELSE e.message

\* The outcome of _make_request: returned is the status of the response
\* returned (0: none), error the exception raised, original its
\* original_exception.
Outcome(sent, sleeps, returned, error, original) ==
    [called |-> TRUE, sent |-> sent, sleeps |-> sleeps, returned |-> returned,
     raised |-> error.cls # "none", error |-> error, original |-> original]

\* A handler that hands the failed response back to the caller.
ReturnsErrorResponse(sent, sleeps, e) == Outcome(sent, sleeps, e.code, NoExc, NoExc)

\* "except Exception as e": what was raised inside the try and is no
\* requests exception leaves as a NotionApiError of code 500 around it.
CaughtByLast(sent, sleeps, e) ==
    Outcome(sent, sleeps, 0,
            Exc("NotionApiError", 500, <<"Notion API request failed: ">> \o StrExc(e)), e)

\* error_data.get("message", f"HTTP {status}") for each body.
error_msg(status, body) ==
    IF body = "message" THEN <<BodyMessage>>
    ELSE IF body = "notjson" THEN HttpText(status) \o <<", response not parsed">>
    ELSE HttpText(status)

\* The code and message of the NotionApiError that ends the retries of each
\* requests exception.
FinalCode(kind) == IF kind = "Timeout" THEN 408 ELSE 503
FinalMessage(kind) ==
    IF kind = "Timeout" THEN <<"Notion API request timed out">>
    ELSE IF kind = "ConnectionError" THEN <<"Notion API connection failed">>
    ELSE <<"Notion API request failed: ", kind>>

\* A loop in which every attempt is followed by another one.
AlwaysRetries(attempt, max_retries) == TRUE

\* "if attempt < max_retries - 1": the attempt is not the last one.
MayRetry(attempt, max_retries) == attempt < max_retries - 1

RECURSIVE Attempts(_, _, _, _, _, _)
\* The loop "for attempt in range(max_retries)" from the given attempt on.
Attempts(max_retries, attempt, retry_delay, meets, sent, sleeps) ==
    IF attempt >= max_retries
    THEN Outcome(sent, sleeps, 0, NoExc, NoExc)
    ELSE LET o == meets[attempt + 1]
             more == MayRetry(attempt, max_retries)
         IN  IF o.kind = "resp"
             THEN IF o.status = 429
                  THEN LET retry_after == IF o.retry_after = "int"
                                          THEN RetryAfterSeconds ELSE retry_delay
                       IN  IF more
                           THEN Attempts(max_retries, attempt + 1, retry_delay, meets,
                                         sent + 1, Append(sleeps, retry_after))
                           ELSE CaughtByLast(sent + 1, sleeps,
                                    Exc("NotionApiError", 429,
                                        <<"Notion API rate limit, retries exhausted">>))
                  ELSE IF o.status >= 400
                  THEN IF o.body = "list"
                       THEN CaughtByLast(sent + 1, sleeps,
                                Exc("AttributeError", 0, <<"'list' object has no attribute 'get'">>))
                       ELSE CaughtByLast(sent + 1, sleeps,
                                Exc("NotionApiError", o.status,
                                    <<"Notion API error: ">> \o error_msg(o.status, o.body)))
                  ELSE Outcome(sent + 1, sleeps, o.status, NoExc, NoExc)
             ELSE IF o.kind = "Exception"
             THEN CaughtByLast(sent + 1, sleeps, Exc("Exception", 0, <<"Exception">>))
             ELSE IF more
             THEN Attempts(max_retries, attempt + 1, retry_delay * 2, meets,
                           sent + 1, Append(sleeps, retry_delay))
             ELSE Outcome(sent + 1, sleeps, 0,
                          Exc("NotionApiError", FinalCode(o.kind), FinalMessage(o.kind)),
                          Exc(o.kind, 0, <<o.kind>>))

NotCalled ==
    [called |-> FALSE, sent |-> 0, sleeps |-> <<>>, returned |-> 0,
     raised |-> FALSE, error |-> NoExc, original |-> NoExc]

\* _make_request(method, endpoint, max_retries)
make_request ==
    /\ ~nout.called
    /\ nout' = Attempts(nin.max_retries, 0, 1, nin.meets, 0, <<>>)
    /\ UNCHANGED nin

\* What the requests of one call may meet. A Retry-After that is an integer
\* is a number of seconds, which HTTP has non-negative.
Meets ==
    {Response(200, "absent", "empty"),
     Response(429, "absent", "empty"), Response(429, "int", "message"),
     Response(429, "nonint", "empty"),
     Response(404, "absent", "message"), Response(400, "absent", "nomessage"),
     Response(500, "absent", "empty"), Response(502, "absent", "notjson"),
     Response(409, "absent", "list"),
     Failure("Timeout"), Failure("ConnectionError"), Failure("RequestException"),
     Failure("Exception")}

InitNotion ==
    /\ nin \in [max_retries : 1..MaxRetries, meets : [1..MaxRetries -> Meets]]
    /\ nout = NotCalled

\* No request helper in use.
IdleNotion ==
    /\ nin = [max_retries |-> 1, meets |-> [i \in 1..MaxRetries |-> Response(200, "absent", "empty")]]
    /\ nout = NotCalled

(***************************************************************************)
(* The singleton connection: Singleton.__call__, APIConnection.__init__    *)
(***************************************************************************)
VARIABLES
    instance,  \* Singleton._instance: the object it holds (0: no such attribute)
    built,     \* how many APIConnection objects the decorated class has built
    precache,  \* APIConnection.precache of the instance
    sres       \* the last construction or reset: its arguments, what it returned

singVars == <<instance, built, precache, sres>>

\* Constructions of the decorated class the model follows.
MaxBuilt == 3

ConnKeys == {"None", "K", "K2"}

\* The settings argument: no precache entry, a boolean one, one of another type.
PrecacheSettings == {"absent", "True", "False", "1"}

\* A variant that never finds the stored instance.
NeverStored(inst) == FALSE

\* "try: return self._instance" succeeds
Stored(inst) == inst # 0

\* precache after __init__: True unless settings holds a bool under "precache".
PrecacheOf(setting) == setting # "False"

SRes(op, key, setting, again, ret, raised) ==
    [op |-> op, key |-> key, setting |-> setting, again |-> again, ret |-> ret,
     raised |-> raised]

\* What __init__ raises when validate_key is set and the test call is answered status.
ValidationError(key, status) ==
    IF key = "None" THEN "ValueError"
    ELSE LET kw == <<Kw("format", VStr("json")), Kw("key", VStr(key))>>
             sent == Send(GET, ConnQuery("ISteamWebAPIUtil", "GetSupportedAPIList", "v1"), kw)
             err == check(status, sent[1].url)
         IN  IF err \in {"APIUnauthorized", "APIKeyRequired", "APIPrivate"}
             THEN "APIConfigurationError" ELSE err

\* APIConnection(api_key, settings, validate_key): Singleton.__call__ under its lock.
Construct(key, setting, validate_key, status) ==
    IF Stored(instance)
    THEN /\ sres' = SRes("construct", key, setting, TRUE, instance, "no")
         /\ UNCHANGED <<instance, built, precache, connKey>>
    ELSE /\ built < MaxBuilt
         /\ built' = built + 1
         /\ LET raised == IF validate_key THEN ValidationError(key, status) ELSE "no"
            IN  IF raised = "no"
                THEN /\ instance' = built + 1
                     /\ connKey' = key
                     /\ precache' = PrecacheOf(setting)
                     /\ sres' = SRes("construct", key, setting, FALSE, built + 1, "no")
                ELSE /\ sres' = SRes("construct", key, setting, FALSE, 0, raised)
                     /\ UNCHANGED <<instance, precache, connKey>>

\* APIConnection().reset(api_key) on the instance
reset(key) ==
    /\ Stored(instance)
    /\ connKey' = key
    /\ sres' = SRes("reset", key, "absent", TRUE, 0, "no")
    /\ UNCHANGED <<instance, built, precache>>

NoSRes == SRes("init", "None", "absent", FALSE, 0, "no")

\* Before the first APIConnection(...).
InitSing == instance = 0 /\ built = 0 /\ precache = TRUE /\ sres = NoSRes

\* The connection exists and is not touched.
IdleSing == instance = 1 /\ built = 1 /\ precache = TRUE /\ sres = NoSRes

(***************************************************************************)
(* chunker and the friends prefetch                                        *)
(***************************************************************************)
VARIABLES
    cin,    \* the sequence and the chunk size
    cout    \* the chunks produced, or the summaries requests sent

chunkVars == <<cin, cout>>

\* The longest sequence, the largest chunk size and the ids it is made of.
MaxLen == 4
MaxSize == 3
Ids == {"i1", "i2", "i3"}

Min(a, b) == IF a < b THEN a ELSE b

RECURSIVE SeqsUpTo(_)
\* The sequences of ids of length n at most.
SeqsUpTo(n) ==
    IF n = 0 THEN {<<>>}
    ELSE LET shorter == SeqsUpTo(n - 1)
         IN  shorter \cup {Append(q, i) : q \in {x \in shorter : Len(x) = n - 1}, i \in Ids}

RECURSIVE ChunkerFullOnly(_, _)
\* A variant that drops a last chunk shorter than size.
ChunkerFullOnly(seq, size) ==
    IF Len(seq) < size THEN <<>>
    ELSE <<SubSeq(seq, 1, size)>> \o ChunkerFullOnly(SubSeq(seq, size + 1, Len(seq)), size)

RECURSIVE chunker(_, _)
\* (seq[pos : pos + size] for pos in range(0, len(seq), size))
chunker(seq, size) ==
    IF Len(seq) = 0 THEN <<>>
    ELSE <<SubSeq(seq, 1, Min(size, Len(seq)))>>
         \o chunker(SubSeq(seq, Min(size, Len(seq)) + 1, Len(seq)), size)

RECURSIVE DictKeys(_, _)
\* list(id_player_map.keys()): each id once, in the order of its first friend.
DictKeys(seq, seen) ==
    IF Len(seq) = 0 THEN <<>>
    ELSE IF Head(seq) \in seen THEN DictKeys(Tail(seq), seen)
    ELSE <<Head(seq)>> \o DictKeys(Tail(seq), seen \cup {Head(seq)})

COut(op, chunks, precached, raised) ==
    [op |-> op, chunks |-> chunks, precached |-> precached, raised |-> raised]

\* list(chunker(seq, size))
Chunk ==
    /\ cout.op = "none"
    /\ cout' = COut("chunker", chunker(cin.seq, cin.size), FALSE, FALSE)
    /\ UNCHANGED cin

\* The prefetch of SteamUser.friends for the friends cin.seq with batches of
\* cin.size: one GetPlayerSummaries call for each batch, until one raises
\* (failing = 0: none does).
friends(precache_setting, failing) ==
    /\ cout.op = "none"
    /\ LET batches == chunker(DictKeys(cin.seq, {}), cin.size)
       IN  /\ failing \in 0..Len(batches)
           /\ cout' = IF ~precache_setting THEN COut("friends", <<>>, FALSE, FALSE)
                      ELSE IF failing = 0 THEN COut("friends", batches, TRUE, FALSE)
                      ELSE COut("friends", SubSeq(batches, 1, failing), TRUE, TRUE)
    /\ UNCHANGED cin

InitChunk ==
    /\ cin \in [seq : SeqsUpTo(MaxLen), size : 1..MaxSize]
    /\ cout = COut("none", <<>>, FALSE, FALSE)

\* No chunking in progress.
IdleChunk ==
    /\ cin = [seq |-> <<>>, size |-> 1]
    /\ cout = COut("none", <<>>, FALSE, FALSE)

(***************************************************************************)
(* The batch import (src/src/client_v2.py) and the driver (src/main.py)    *)
(***************************************************************************)
VARIABLES
    database_id,      \* NotionGameList._database_id: "None" or the id "db"
    is_new_database,  \* NotionGameList._is_new_database
    iin,              \* what one import meets: the games, the options, the
                      \* database's answer to the query, each create or update
    imp,              \* the last call of import_game_list
    drv               \* the last run of the driver

importVars == <<database_id, is_new_database, iin, imp, drv>>

MaxGames == 3
GameNames == {"g1", "g2"}

\* A set of names that is None (known = FALSE) or a set, empty or not.
NoNames == [known |-> FALSE, names |-> {}]
KnownNames(names) == [known |-> TRUE, names |-> names]

\* What add_game or update_game did: ret is "True", "False" or the name of
\* the exception that left it, sent the request it made of _make_request
\* ("none": it made none).
Did(ret, sent) == [ret |-> ret, sent |-> sent]

\* What a create or an update meets: the request succeeds ("ok"), the
\* call fails ("fail": here at its request), or the game has no property and
\* no image to
\* write ("empty": an update has an empty payload then; a create still has
\* the parent and the title).
Outcomes == {"ok", "fail", "empty"}

\* add_game without the except clause of its try: a failing creation raises.
AddGameUnguarded(db, game, skip_if_exists, existing_names, query, outcome) ==
    IF db = "None" THEN Did("NotionApiError", "none")
    ELSE IF outcome = "fail" THEN Did("NotionApiError", "POST")
    ELSE Did("True", "POST")

\* add_game. The check of the database and the lookup of the names are
\* outside the try; whatever the creation raises is caught and becomes
\* False.
add_game(db, game, skip_if_exists, existing_names, query, outcome) ==
    IF db = "None" THEN Did("NotionApiError", "none")
    ELSE IF skip_if_exists /\ ~existing_names.known /\ query.raised
         THEN Did("NotionApiError", "none")
    ELSE IF skip_if_exists /\
            game \in (IF existing_names.known THEN existing_names.names
                      ELSE query.names)
         THEN Did("True", "none")
    ELSE IF outcome = "fail" THEN Did("False", "POST")
    ELSE Did("True", "POST")

\* update_game: the same shape, without the lookup; with nothing to write it
\* returns True and sends nothing.
update_game(db, game, outcome) ==
    IF db = "None" THEN Did("NotionApiError", "none")
    ELSE IF outcome = "empty" THEN Did("True", "none")
    ELSE IF outcome = "fail" THEN Did("False", "PATCH")
    ELSE Did("True", "PATCH")

\* The two modes, the names of the existing games, and the query for them:
\* "none" (not made), "answered" or "failed".
Mode(skip, update, existing, lookup) ==
    [skip |-> skip, update |-> update, existing |-> existing, lookup |-> lookup]

\* A prelude that leaves skip_duplicates as it was passed.
PreludeKeepsSkip(db, is_new, skip_duplicates, update_mode, query) ==
    Mode(skip_duplicates, update_mode,
         IF is_new \/ db = "None" \/ query.raised THEN KnownNames({})
         ELSE KnownNames(query.names),
         "none")

\* A prelude that leaves the modes on when the query failed.
PreludeKeepsModes(db, is_new, skip_duplicates, update_mode, query) ==
    LET skip == IF update_mode THEN FALSE ELSE skip_duplicates
    IN  IF ~(skip \/ update_mode) THEN Mode(skip, update_mode, NoNames, "none")
        ELSE IF is_new THEN Mode(skip, update_mode, KnownNames({}), "none")
        ELSE IF db = "None" \/ query.raised THEN Mode(skip, update_mode, NoNames, "failed")
        ELSE Mode(skip, update_mode, KnownNames(query.names), "answered")

\* The options and the names after the query that precedes the loop: a
\* failed query (an unset database makes it fail) turns both modes off.
Prelude(db, is_new, skip_duplicates, update_mode, query) ==
    LET skip == IF update_mode THEN FALSE ELSE skip_duplicates
    IN  IF ~(skip \/ update_mode) THEN Mode(skip, update_mode, NoNames, "none")
        ELSE IF is_new THEN Mode(skip, update_mode, KnownNames({}), "none")
        ELSE IF db = "None" \/ query.raised THEN Mode(FALSE, FALSE, NoNames, "failed")
        ELSE Mode(skip, update_mode, KnownNames(query.names), "answered")

\* One game of the loop: what was done with it, how it ended, the request
\* made for it, and the two modes as they stood at its iteration.
GameOp(game, op, did, mode) ==
    [game |-> game, op |-> op, ret |-> did.ret, sent |-> did.sent,
     skip |-> mode.skip, update |-> mode.update]

\* Counters that leave the skipped games out.
CountsWithoutSkipped(imported, updated, skipped) ==
    [imported |-> imported, updated |-> updated, skipped |-> 0]

\* imported_count, updated_count and skipped_count.
Counts(imported, updated, skipped) ==
    [imported |-> imported, updated |-> updated, skipped |-> skipped]

\* An import: the database at the call, the modes after the query, the
\* games handled, the returned errors (raised: it returned nothing) and
\* the counters.
ImpRes(called, db, raised, mode, ops, errors, counts) ==
    [called |-> called, db |-> db, raised |-> raised, skip |-> mode.skip,
     update |-> mode.update, existing |-> mode.existing.names,
     lookup |-> mode.lookup, ops |-> ops,
     errors |-> errors, counts |-> counts]

NoMode == Mode(FALSE, FALSE, NoNames, "none")

NotImported == ImpRes(FALSE, "None", FALSE, NoMode, <<>>, <<>>, Counts(0, 0, 0))

\* The loop of import_game_list from game i on.
RECURSIVE Loop(_, _, _, _, _, _, _)
Loop(db, game_list, outcome, query, mode, i, acc) ==
    IF i > Len(game_list) THEN acc
    ELSE
      LET game == game_list[i]
          found == mode.existing.names # {} /\ game \in mode.existing.names
          op  == IF mode.update /\ found THEN "update"
                 ELSE IF mode.skip /\ found THEN "skip"
                 ELSE "add"
          did == IF op = "update" THEN update_game(db, game, outcome[i])
                 ELSE IF op = "skip" THEN Did("True", "none")
                 ELSE add_game(db, game, mode.skip, mode.existing, query, outcome[i])
          ops == Append(acc.ops, GameOp(game, op, did, mode))
          c   == acc.counts
          inc == IF did.ret = "True" THEN 1 ELSE 0
      IN  IF did.ret \notin {"True", "False"}
          THEN ImpRes(TRUE, db, TRUE, mode, ops, acc.errors, c)
          ELSE Loop(db, game_list, outcome, query, mode, i + 1,
                    ImpRes(TRUE, db, FALSE, mode, ops,
                           IF did.ret = "False" THEN Append(acc.errors, i)
                           ELSE acc.errors,
                           IF op = "update" THEN Counts(c.imported, c.updated + inc, c.skipped)
                           ELSE IF op = "skip" THEN Counts(c.imported, c.updated, c.skipped + 1)
                           ELSE Counts(c.imported + inc, c.updated, c.skipped)))

\* import_game_list as a function of the client and of what it meets; the
\* list of errors holds the positions of the games it holds.
ImportGameList(db, is_new, game_list, skip_duplicates, update_mode, query, outcome) ==
    LET mode == Prelude(db, is_new, skip_duplicates, update_mode, query)
    IN  Loop(db, game_list, outcome, query, mode, 1,
             ImpRes(TRUE, db, FALSE, mode, <<>>, <<>>, Counts(0, 0, 0)))

\* connect_database: the id is stored before the request that may fail.
connect_database ==
    /\ database_id' = "db"
    /\ is_new_database' = FALSE
    /\ UNCHANGED <<iin, imp, drv>>

\* create_game_page: the id is stored when the creation succeeded.
create_game_page(ok) ==
    /\ database_id = "None"
    /\ database_id' = IF ok THEN "db" ELSE database_id
    /\ is_new_database' = IF ok THEN TRUE ELSE is_new_database
    /\ UNCHANGED <<iin, imp, drv>>

import_game_list ==
    /\ ~imp.called
    /\ imp' = ImportGameList(database_id, is_new_database, iin.game_list,
                             iin.skip_duplicates, iin.update_mode, iin.query,
                             iin.outcome)
    /\ UNCHANGED <<database_id, is_new_database, iin, drv>>

\* The driver's run: what it raised ("no": nothing), the import it made,
\* and the failed games it printed (reported: whether it reached the
\* report).
DrvRes(ran, raised, import, reported, printed) ==
    [ran |-> ran, raised |-> raised, import |-> import, reported |-> reported,
     printed |-> printed]

NotRun == DrvRes(FALSE, "no", NotImported, FALSE, <<>>)

\* ServiceError(msg = ...): the constructor has no parameter msg, so the
\* call raises TypeError.
ServiceErrorMsg == "TypeError"

\* The driver from the game list on: it connects to the database or creates
\* one, imports, and reports.
Report(import, total) ==
    IF import.raised THEN DrvRes(TRUE, "NotionApiError", import, FALSE, <<>>)
    ELSE IF total - Len(import.errors) = 0
         THEN DrvRes(TRUE, ServiceErrorMsg, import, FALSE, <<>>)
    ELSE DrvRes(TRUE, "no", import, TRUE, import.errors)

main(NOTION_DATABASE_ID, ok) ==
    /\ ~drv.ran
    /\ database_id = "None"
    /\ IF iin.game_list = <<>>
       THEN /\ drv' = DrvRes(TRUE, ServiceErrorMsg, NotImported, FALSE, <<>>)
            /\ UNCHANGED <<database_id, is_new_database>>
       ELSE /\ database_id' = IF NOTION_DATABASE_ID \/ ok THEN "db" ELSE "None"
            /\ is_new_database' = (~NOTION_DATABASE_ID /\ ok)
            /\ drv' = IF ~ok THEN DrvRes(TRUE, "NotionApiError", NotImported, FALSE, <<>>)
                      ELSE Report(ImportGameList("db", ~NOTION_DATABASE_ID,
                                                 iin.game_list, ~iin.update_mode,
                                                 iin.update_mode, iin.query,
                                                 iin.outcome),
                                  Len(iin.game_list))
    /\ UNCHANGED <<iin, imp>>

\* What the query of the existing games answers.
Queries ==
    {[raised |-> TRUE, names |-> {}]} \cup
    {[raised |-> FALSE, names |-> s] : s \in SUBSET GameNames}

GameLists == UNION {[1..n -> GameNames] : n \in 0..MaxGames}

InitImport ==
    /\ database_id = "None"
    /\ is_new_database = FALSE
    /\ iin \in [game_list : GameLists, skip_duplicates : BOOLEAN,
                update_mode : BOOLEAN, query : Queries,
                outcome : [1..MaxGames -> Outcomes]]
    /\ imp = NotImported
    /\ drv = NotRun

\* No import in progress.
IdleImport ==
    /\ database_id = "None"
    /\ is_new_database = FALSE
    /\ iin = [game_list |-> <<>>, skip_duplicates |-> TRUE, update_mode |-> FALSE,
              query |-> [raised |-> FALSE, names |-> {}],
              outcome |-> [i \in 1..MaxGames |-> "ok"]]
    /\ imp = NotImported
    /\ drv = NotRun

(***************************************************************************)
(* The library fetch and its cache file (src/src/games/steam.py)           *)
(***************************************************************************)
VARIABLES
    lib,         \* the user's library and the options of the runs
    cache_file,  \* game_info_cache.json: the records it holds, in order
    games,       \* SteamGamesLibrary._games of the running process
    fres         \* the last call of get_games_list

fetchVars == <<lib, cache_file, games, fres>>

\* The games of the library are 1..MaxLib, in the order of their names.
MaxLib == 3

\* A game is paid and in the store, free to play (GetOwnedGames leaves it
\* out unless the played free games are asked for), free in the store but
\* owned, or gone from the store.
Kinds == {"paid", "free", "kept", "gone"}

\* A GameInfo: the id and the free flag.
GameInfo(id, free) == [id |-> id, free |-> free]

IdsOf(records) == {records[i].id : i \in 1..Len(records)}

\* d[key] = value on a dict kept as the sequence of its values.
Put(records, record) ==
    IF record.id \in IdsOf(records)
    THEN [i \in 1..Len(records) |->
             IF records[i].id = record.id THEN record ELSE records[i]]
    ELSE Append(records, record)

\* _load_cached_games: every record of the file, less the free games when
\* they are skipped, goes into _games.
RECURSIVE load_cached_games(_, _, _, _)
load_cached_games(into, file, i, skip_free_games) ==
    IF i > Len(file) THEN into
    ELSE load_cached_games(
             IF skip_free_games /\ file[i].free THEN into ELSE Put(into, file[i]),
             file, i + 1, skip_free_games)

\* user.owned_games or user.games, sorted by name.
games_iter(kind, skip_free_games) ==
    LET InIter(id) == ~(skip_free_games /\ kind[id] = "free")
    IN  SelectSeq([id \in 1..MaxLib |-> id], InIter)

\* The state of a fetch: _games, the file, the store lookups made, the
\* games skipped because the store has them not, whether it raised.
FetchState(g, file, lookups, store_skipped, raised) ==
    [games |-> g, file |-> file, lookups |-> lookups,
     store_skipped |-> store_skipped, raised |-> raised]

\* The loop of _fetch_games from position i of the sorted library on; the
\* store lookup of the game failing (0: of none) ends in a network error,
\* which is no SteamApiError and so leaves the retry at once.
RECURSIVE fetch_games(_, _, _, _, _)
fetch_games(opts, iter, i, failing, st) ==
    IF i > Len(iter) THEN st
    ELSE IF opts.limit > 0 /\ Len(st.games) >= opts.limit THEN st
    ELSE
      LET id == iter[i]
          looked == IF opts.library_only THEN st.lookups ELSE Append(st.lookups, id)
          found == ~opts.library_only /\ opts.kind[id] # "gone"
          free == found /\ opts.kind[id] \in {"free", "kept"}
          info == GameInfo(id, free)
      IN  IF id \in IdsOf(st.games)
          THEN fetch_games(opts, iter, i + 1, failing, st)
          ELSE IF ~opts.library_only /\ id = failing
          THEN FetchState(st.games, st.file, looked, st.store_skipped, TRUE)
          ELSE IF ~opts.library_only /\ ~found /\ opts.skip_non_steam
          THEN fetch_games(opts, iter, i + 1, failing,
                   FetchState(st.games, st.file, looked,
                              Append(st.store_skipped, id), FALSE))
          ELSE IF opts.skip_free_games /\ free
          THEN fetch_games(opts, iter, i + 1, failing,
                   FetchState(st.games, st.file, looked, st.store_skipped, FALSE))
          ELSE fetch_games(opts, iter, i + 1, failing,
                   FetchState(Put(st.games, info), Put(st.file, info), looked,
                              st.store_skipped, FALSE))

\* _fetch_library_games: nothing to do when _games holds a game and force is
\* off; else the file is loaded, and again nothing more is done when _games
\* holds a game by now and force is off; else the library is fetched.
fetch_library_games(opts, force, failing, g, file) ==
    IF g # <<>> /\ ~force THEN FetchState(g, file, <<>>, <<>>, FALSE)
    ELSE
      LET loaded == load_cached_games(g, file, 1, opts.skip_free_games)
          iter == games_iter(opts.kind, opts.skip_free_games)
      IN  IF loaded # <<>> /\ ~force THEN FetchState(loaded, file, <<>>, <<>>, FALSE)
          ELSE IF opts.limit > 0 /\ Len(loaded) >= opts.limit
          THEN FetchState(loaded, file, <<>>, <<>>, FALSE)
          ELSE fetch_games(opts, iter, 1, failing,
                           FetchState(loaded, file, <<>>, <<>>, FALSE))

\* The last call: how it was made, what it found at its start, the ids it
\* returned, the store lookups it made.
FRes(called, force, raised, had_games, had_file, ret, lookups) ==
    [called |-> called, force |-> force, raised |-> raised,
     had_games |-> had_games, had_file |-> had_file, ret |-> ret,
     lookups |-> lookups]

NoFRes == FRes(FALSE, FALSE, FALSE, {}, {}, <<>>, <<>>)

\* get_games_list(skip_non_steam, skip_free_games, library_only, limit, force)
get_games_list(force, failing) ==
    LET st == fetch_library_games(lib, force, failing, games, cache_file)
    IN  /\ games' = st.games
        /\ cache_file' = st.file
        /\ fres' = FRes(TRUE, force, st.raised, IdsOf(games), IdsOf(cache_file),
                        IF st.raised THEN <<>>
                        ELSE [i \in 1..Len(st.games) |-> st.games[i].id],
                        st.lookups)
        /\ UNCHANGED lib

\* A new run of the program: a new process with an empty _games; the file
\* is what the run before left.
NewRun ==
    /\ fres.called
    /\ games # <<>> \/ fres.raised
    /\ games' = <<>>
    /\ fres' = NoFRes
    /\ UNCHANGED <<lib, cache_file>>

\* The driver removes the file after an import.
RemoveCache ==
    /\ fres.called /\ ~fres.raised /\ fres.ret # <<>>
    /\ cache_file # <<>>
    /\ cache_file' = <<>>
    /\ UNCHANGED <<lib, games, fres>>

Limits == {0, 2}

InitFetch ==
    /\ lib \in [kind : [1..MaxLib -> Kinds], skip_non_steam : BOOLEAN,
                skip_free_games : BOOLEAN, library_only : BOOLEAN,
                limit : Limits]
    /\ cache_file = <<>>
    /\ games = <<>>
    /\ fres = NoFRes

\* No fetch in progress.
IdleFetch ==
    /\ lib = [kind |-> [id \in 1..MaxLib |-> "paid"], skip_non_steam |-> FALSE,
              skip_free_games |-> FALSE, library_only |-> FALSE, limit |-> 0]
    /\ cache_file = <<>>
    /\ games = <<>>
    /\ fres = NoFRes

(***************************************************************************)
(* The retry decorator (src/src/utils.py)                                  *)
(***************************************************************************)
VARIABLES
    rin,   \* the decorator's arguments and what each call of f in turn does
    rout   \* the last call of the wrapper

retryVars == <<rin, rout>>

MaxRetryNum == 3

\* What a call of f does: it returns, raises a listed exception with a
\* code, or raises an exception that is not listed.
Returns == [kind |-> "ok", code |-> 0]
Listed(code) == [kind |-> "listed", code |-> code]
Unlisted == [kind |-> "other", code |-> 0]

\* A delay in half seconds; is_float: the number is a Python float.
Delay(halves, is_float) == [halves |-> halves, is_float |-> is_float]

\* The sleeps between two attempts, in half seconds: with debug a countdown
\* of one second for each s of range(_delay, 1, -1), else one sleep of
\* _delay.
Countdown(delay, debug) ==
    IF debug THEN [s \in 1..((delay.halves \div 2) - 1) |-> 2]
    ELSE <<delay.halves>>

\* The outcome of a call of the wrapper: how often f was invoked, the
\* sleeps, and what came out: "value", "None", or the exception raised.
ROut(called, invocations, sleeps, surfaced) ==
    [called |-> called, invocations |-> invocations, sleeps |-> sleeps,
     surfaced |-> surfaced]

Surface(raise_on_error) == IF raise_on_error THEN "listed" ELSE "None"

\* The loop "while _tries > 1" of the wrapper.
RECURSIVE wrapper(_, _, _, _, _)
wrapper(args, tries, delay, invocations, sleeps) ==
    IF ~(tries > 1) THEN ROut(TRUE, invocations, sleeps, "None")
    ELSE
      LET o == args.calls[invocations + 1]
          next_delay == Delay(delay.halves * args.backoff, delay.is_float)
      IN  IF o.kind = "ok" THEN ROut(TRUE, invocations + 1, sleeps, "value")
          ELSE IF o.kind = "other" THEN ROut(TRUE, invocations + 1, sleeps, "other")
          ELSE IF args.on_code # 0 /\ args.on_code # o.code
          THEN ROut(TRUE, invocations + 1, sleeps, Surface(args.raise_on_error))
          ELSE IF tries - 1 = 1
          THEN ROut(TRUE, invocations + 1, sleeps, Surface(args.raise_on_error))
          ELSE IF args.debug /\ next_delay.is_float
          THEN ROut(TRUE, invocations + 1, sleeps, "TypeError")
          ELSE wrapper(args, tries - 1, next_delay, invocations + 1,
                       sleeps \o Countdown(next_delay, args.debug))

NotWrapped == ROut(FALSE, 0, <<>>, "None")

\* A call of the function that retry(...) decorates.
Wrapped ==
    /\ ~rout.called
    /\ rout' = wrapper(rin, rin.retry_num + 1, rin.initial_wait, 0, <<>>)
    /\ UNCHANGED rin

\* The default 0.5 and the delays of the two decorated functions.
Waits == {Delay(1, TRUE), Delay(10, FALSE), Delay(180, FALSE)}

\* on_code: 0 is None.
Codes == {0, 429}

CallOutcomes == {Returns, Listed(429), Listed(500), Unlisted}

InitRetry ==
    /\ rin \in [retry_num : 0..MaxRetryNum, on_code : Codes,
                raise_on_error : BOOLEAN, debug : BOOLEAN,
                initial_wait : Waits, backoff : {1, 2},
                calls : [1..(MaxRetryNum + 1) -> CallOutcomes]]
    /\ rout = NotWrapped

\* No decorated function in use.
IdleRetry ==
    /\ rin = [retry_num |-> 0, on_code |-> 0, raise_on_error |-> TRUE,
              debug |-> FALSE, initial_wait |-> Delay(1, TRUE), backoff |-> 1,
              calls |-> [i \in 1..(MaxRetryNum + 1) |-> Returns]]
    /\ rout = NotWrapped

(***************************************************************************)
(* Achievements (src/src/api/steam/steamapi/app.py)                        *)
(***************************************************************************)
VARIABLES
    ain,     \* the app: whether a user is associated, what the server holds
    alist,   \* the list SteamApp.achievements returned (built: it was read)
    acache,  \* acache[a]: the _cache of the SteamAchievement a
    areq,    \* the API requests made so far, in order
    ares     \* the last read of a property of an achievement

achVars == <<ain, alist, acache, areq, ares>>

\* The achievements of the game's schema, in order.
Achs == <<"x", "y">>
AchSet == {Achs[i] : i \in 1..Len(Achs)}

\* The keys an achievement's _cache may hold.
AKeys == {"is_hidden", "is_achieved", "is_unlocked"}

NoA == [present |-> FALSE, value |-> FALSE]
AEntry(value) == [present |-> TRUE, value |-> value]
NoACache == [k \in AKeys |-> NoA]

\* store(obj, property_name, data) on an achievement, which holds a _cache.
AStore(cache, property_name, data) == [cache EXCEPT ![property_name] = AEntry(data)]

\* The caches SteamApp.achievements leaves on the objects it builds:
\* is_hidden for each, and the unlock state under "is_achieved" when a user
\* is associated (without player stats the test "apiname in unlocks" is
\* made on the response and gives False).
Built(a) ==
    LET h == AStore(NoACache, "is_hidden", a \in ain.hidden)
    IN  IF ain.user
        THEN AStore(h, "is_achieved", ain.has_stats /\ a \in ain.unlocked)
        ELSE h

\* SteamApp.achievements: the requests, then the list (empty for an app
\* without stat data).
achievements ==
    /\ ~alist.built
    /\ areq' = areq \o <<"GetGlobalAchievementPercentagesForApp">>
                    \o (IF ain.user THEN <<"GetUserStatsForGame">> ELSE <<>>)
                    \o <<"GetSchemaForGame">>
    /\ alist' = [built |-> TRUE, items |-> IF ain.has_schema THEN Achs ELSE <<>>]
    /\ acache' = [a \in AchSet |-> IF ain.has_schema THEN Built(a) ELSE NoACache]
    /\ ares' = [op |-> "achievements", a |-> "-", requests |-> 0, raised |-> "no",
                ret |-> FALSE]
    /\ UNCHANGED ain

\* A read of the cached property prop (ttl = INFINITE) of achievement a:
\* the entry under the property's own name, else the function, which asks
\* the API with the request given and stores what it computed.
ARead(a, prop, request, value, raises) ==
    /\ alist.built
    /\ \E i \in 1..Len(alist.items) : alist.items[i] = a
    /\ IF acache[a][prop].present
       THEN /\ ares' = [op |-> prop, a |-> a, requests |-> 0, raised |-> "no",
                        ret |-> acache[a][prop].value]
            /\ UNCHANGED <<acache, areq>>
       ELSE IF raises
       THEN /\ ares' = [op |-> prop, a |-> a, requests |-> 0,
                        raised |-> "ValueError", ret |-> FALSE]
            /\ UNCHANGED <<acache, areq>>
       ELSE /\ areq' = Append(areq, request)
            /\ acache' = [acache EXCEPT ![a] = AStore(@, prop, value)]
            /\ ares' = [op |-> prop, a |-> a, requests |-> 1, raised |-> "no",
                        ret |-> value]
    /\ UNCHANGED <<ain, alist>>

\* SteamAchievement.is_hidden
is_hidden(a) == ARead(a, "is_hidden", "GetSchemaForGame", a \in ain.hidden, FALSE)

\* SteamAchievement.is_unlocked: it needs a user.
is_unlocked(a) ==
    ARead(a, "is_unlocked", "GetPlayerAchievements", a \in ain.unlocked, ~ain.user)

NoARes == [op |-> "none", a |-> "-", requests |-> 0, raised |-> "no", ret |-> FALSE]

InitAch ==
    /\ ain \in [user : BOOLEAN, has_schema : BOOLEAN, has_stats : BOOLEAN,
                hidden : SUBSET AchSet, unlocked : SUBSET AchSet]
    /\ ain.has_stats \/ ain.unlocked = {}
    /\ alist = [built |-> FALSE, items |-> <<>>]
    /\ acache = [a \in AchSet |-> NoACache]
    /\ areq = <<>>
    /\ ares = NoARes

\* No achievement in use.
IdleAch ==
    /\ ain = [user |-> FALSE, has_schema |-> FALSE, has_stats |-> FALSE,
              hidden |-> {}, unlocked |-> {}]
    /\ alist = [built |-> FALSE, items |-> <<>>]
    /\ acache = [a \in AchSet |-> NoACache]
    /\ areq = <<>>
    /\ ares = NoARes

(***************************************************************************)
(* Singleton.__call__ under threads                                        *)
(***************************************************************************)
VARIABLES
    pc,     \* pc[t]: where thread t is in Singleton.__call__
    lock,   \* Singleton._lock: the thread that holds it ("free": none)
    got     \* got[t]: what t's last call returned (0: nothing, -1: it raised)

thrVars == <<pc, lock, got>>

Threads == {"t1", "t2", "t3"}

\* A lock that any thread may take at any time.
AlwaysFree(l) == TRUE

\* threading.Lock: it can be acquired when no thread holds it.
Free(l) == l = "free"

\* A thread calls APIConnection(...): it waits at "with self._lock".
Call(t) ==
    /\ pc[t] = "idle"
    /\ pc' = [pc EXCEPT ![t] = "waiting"]
    /\ got' = [got EXCEPT ![t] = 0]
    /\ UNCHANGED <<lock, instance, built, precache, sres, connKey>>

\* with self._lock: __enter__
Acquire(t) ==
    /\ pc[t] = "waiting"
    /\ Free(lock)
    /\ lock' = t
    /\ pc' = [pc EXCEPT ![t] = "try"]
    /\ UNCHANGED <<got, instance, built, precache, sres, connKey>>

\* try: return self._instance; except AttributeError: go on to build. The
\* return leaves the with block and releases the lock.
Try(t) ==
    /\ pc[t] = "try"
    /\ IF Stored(instance)
       THEN /\ got' = [got EXCEPT ![t] = instance]
            /\ pc' = [pc EXCEPT ![t] = "idle"]
            /\ lock' = IF lock = t THEN "free" ELSE lock
       ELSE /\ pc' = [pc EXCEPT ![t] = "build"]
            /\ UNCHANGED <<got, lock>>
    /\ UNCHANGED <<instance, built, precache, sres, connKey>>

\* self._instance = self._decorated(*args, **kwargs); return self._instance.
\* The constructor may raise (a key that fails validation): nothing is
\* stored then. Either way the with block is left and the lock released.
Build(t, ok) ==
    /\ pc[t] = "build"
    /\ built < MaxBuilt
    /\ built' = built + 1
    /\ IF ok
       THEN /\ instance' = built + 1
            /\ got' = [got EXCEPT ![t] = built + 1]
       ELSE /\ got' = [got EXCEPT ![t] = -1]
            /\ UNCHANGED instance
    /\ pc' = [pc EXCEPT ![t] = "idle"]
    /\ lock' = IF lock = t THEN "free" ELSE lock
    /\ UNCHANGED <<precache, sres, connKey>>

InitThreads ==
    /\ pc = [t \in Threads |-> "idle"]
    /\ lock = "free"
    /\ got = [t \in Threads |-> 0]

IdleThreads == InitThreads

(***************************************************************************)
(* The driver, step by step (src/main.py)                                  *)
(***************************************************************************)
VARIABLES
    env,          \* the settings read from .env (TRUE: set, or a flag that is on)
    at,           \* the step the run has reached
    steps,        \* the steps performed so far, in order
    game_n,       \* len(game_list) (-1: not fetched)
    error_n,      \* len(errors) (-1: no import has returned)
    cache_there,  \* game_info_cache.json exists
    deleted,      \* the run removed the cache file
    failed,       \* the step that raised ("none": no step did)
    exit_code     \* the exit code of the process (-1: it is running)

runVars == <<env, at, steps, game_n, error_n, cache_there, deleted, failed, exit_code>>

MaxRunGames == 2

\* The steps of the run, in the order of the source.
Order ==
    <<"config", "notion_login", "steam_login", "fetch", "database", "import",
      "delete_cache">>

Settings ==
    [NOTION_TOKEN : BOOLEAN, STEAM_TOKEN : BOOLEAN, STEAM_USER : BOOLEAN,
     NOTION_PAGE_ID : BOOLEAN, NOTION_DATABASE_ID : BOOLEAN,
     SKIP_NON_STEAM : BOOLEAN, USE_ONLY_LIBRARY : BOOLEAN]

\* The checks at the head of the try block.
ConfigOk(e) ==
    /\ e.NOTION_TOKEN /\ e.STEAM_TOKEN /\ e.STEAM_USER
    /\ ~(e.SKIP_NON_STEAM /\ e.USE_ONLY_LIBRARY)

\* A run that goes on after an import that imported nothing.
NeverNothingImported(total, errors) == FALSE

\* imported = len(game_list) - len(errors); if imported == 0: raise
NothingImported(total, errors) == total - errors = 0

\* A step raises: control passes to the except clauses.
Raises(step) ==
    /\ failed' = step
    /\ at' = "except"

\* A step is done: the run goes on to the next statement.
GoesOn(next) ==
    /\ at' = next
    /\ UNCHANGED failed

ConfigCheck ==
    /\ at = "config"
    /\ steps' = Append(steps, "config")
    /\ IF ConfigOk(env) THEN GoesOn("notion_login") ELSE Raises("config")
    /\ UNCHANGED <<env, game_n, error_n, cache_there, deleted, exit_code>>

\* NotionGameList.login(), after the check that a page or a database is named.
NotionLogin ==
    /\ at = "notion_login"
    /\ IF ~env.NOTION_DATABASE_ID /\ ~env.NOTION_PAGE_ID
       THEN Raises("config") /\ UNCHANGED steps
       ELSE GoesOn("steam_login") /\ steps' = Append(steps, "notion_login")
    /\ UNCHANGED <<env, game_n, error_n, cache_there, deleted, exit_code>>

\* SteamGamesLibrary.login(): the key is validated and the user looked up.
SteamLogin(ok) ==
    /\ at = "steam_login"
    /\ steps' = Append(steps, "steam_login")
    /\ IF ok THEN GoesOn("fetch") ELSE Raises("steam_login")
    /\ UNCHANGED <<env, game_n, error_n, cache_there, deleted, exit_code>>

\* The library fetch: n games, or an exception; the games fetched from the
\* store are written to the cache file.
FetchLibrary(ok, n, wrote) ==
    /\ at = "fetch"
    /\ steps' = Append(steps, "fetch")
    /\ cache_there' = (cache_there \/ (wrote /\ n > 0))
    /\ IF ~ok THEN Raises("fetch") /\ UNCHANGED game_n
       ELSE /\ game_n' = n
            /\ IF n = 0 THEN Raises("fetch") ELSE GoesOn("database")
    /\ UNCHANGED <<env, error_n, deleted, exit_code>>

\* ngl.connect_database(NOTION_DATABASE_ID) or ngl.create_game_page()
ConnectOrCreate(ok) ==
    /\ at = "database"
    /\ steps' = Append(steps, "database")
    /\ IF ok THEN GoesOn("import") ELSE Raises("database")
    /\ UNCHANGED <<env, game_n, error_n, cache_there, deleted, exit_code>>

\* ngl.import_game_list(...): it raises, or returns the games that failed.
Import(ok, e) ==
    /\ at = "import"
    /\ steps' = Append(steps, "import")
    /\ IF ~ok THEN Raises("import") /\ UNCHANGED error_n
       ELSE /\ error_n' = e
            /\ IF NothingImported(game_n, e) THEN Raises("import")
               ELSE GoesOn("delete_cache")
    /\ UNCHANGED <<env, game_n, cache_there, deleted, exit_code>>

\* if os.path.exists(cache_file): os.remove(cache_file); then the end of the
\* try block, and soft_exit(0).
DeleteCache(ok) ==
    /\ at = "delete_cache"
    /\ steps' = Append(steps, "delete_cache")
    /\ IF cache_there /\ ~ok
       THEN Raises("delete_cache") /\ UNCHANGED <<cache_there, deleted, exit_code>>
       ELSE /\ cache_there' = FALSE
            /\ deleted' = cache_there
            /\ at' = "exit"
            /\ exit_code' = 0
            /\ UNCHANGED failed
    /\ UNCHANGED <<env, game_n, error_n>>

\* The except clauses: soft_exit(1), or with DEBUG the exception raised again,
\* which ends the interpreter with code 1 too.
Except ==
    /\ at = "except"
    /\ at' = "exit"
    /\ exit_code' = 1
    /\ UNCHANGED <<env, steps, game_n, error_n, cache_there, deleted, failed>>

InitRun ==
    /\ env \in Settings
    /\ at = "config"
    /\ steps = <<>>
    /\ game_n = -1
    /\ error_n = -1
    /\ cache_there \in BOOLEAN
    /\ deleted = FALSE
    /\ failed = "none"
    /\ exit_code = -1

\* No run.
IdleRun ==
    /\ env = [NOTION_TOKEN |-> TRUE, STEAM_TOKEN |-> TRUE, STEAM_USER |-> TRUE,
              NOTION_PAGE_ID |-> TRUE, NOTION_DATABASE_ID |-> FALSE,
              SKIP_NON_STEAM |-> FALSE, USE_ONLY_LIBRARY |-> FALSE]
    /\ at = "config"
    /\ steps = <<>>
    /\ game_n = -1
    /\ error_n = -1
    /\ cache_there = FALSE
    /\ deleted = FALSE
    /\ failed = "none"
    /\ exit_code = -1

(***************************************************************************)
(* Specifications                                                          *)
(***************************************************************************)
\* The variables beyond the Steam client's, and their state when not in use.
lateVars == <<achVars, thrVars, runVars>>
IdleLate == IdleAch /\ IdleThreads /\ IdleRun
appVars == <<importVars, fetchVars, retryVars, lateVars>>
IdleApp == IdleImport /\ IdleFetch /\ IdleRetry /\ IdleLate
extVars == <<notionVars, singVars, chunkVars, appVars>>
IdleExt == IdleNotion /\ IdleSing /\ IdleChunk /\ IdleApp
steamVars == <<cacheVars, apiVars, wrapVars>>
IdleSteam == InitCache /\ IdleApi /\ IdleWrap

vars == <<cacheVars, apiVars, wrapVars, extVars>>

NextCache ==
    \/ Tick /\ UNCHANGED <<apiVars, wrapVars, extVars>>
    \/ \E o \in Objects, p \in Props : Get(o, p) /\ UNCHANGED <<apiVars, wrapVars, extVars>>
    \/ \E o \in Objects, p \in Props, rt \in ReceivedTimes : store(o, p, rt) /\ UNCHANGED <<apiVars, wrapVars, extVars>>
    \/ \E o \in Objects, p \in Props : expire(o, p) /\ UNCHANGED <<apiVars, wrapVars, extVars>>

InitCacheOnly == InitCache /\ IdleApi /\ IdleWrap /\ IdleExt

\* The cache: reads, stores and deletions on the four objects as time passes.
SpecCache == InitCacheOnly /\ [][NextCache]_vars

NextApi ==
    \/ \E name \in ReadNames : RootGetAttr(name) /\ UNCHANGED <<cacheVars, wrapVars, extVars>>
    \/ \E n \in 1..Len(nodes), item \in ReadNames : NodeGetAttr(n, item) /\ UNCHANGED <<cacheVars, wrapVars, extVars>>
    \/ \E n \in 1..Len(nodes), r \in FewResponses :
          Invoke(n, GET, <<>>, r.status, r.body) /\ UNCHANGED <<cacheVars, wrapVars, extVars>>

InitTree == InitApi /\ api_key = "None" /\ connKey = "None" /\ InitCache /\ IdleWrap /\ IdleExt

\* The node tree: any attribute reads, by any names, and invocations between them.
SpecApi == InitTree /\ [][NextApi]_vars

NextCall ==
    \/ RootGetAttr(ChainPath[1]) /\ UNCHANGED <<cacheVars, wrapVars, extVars>>
    \/ \E n \in 1..Len(nodes), item \in Names :
          /\ IsPrefix(Append(nodes[n].path, item), ChainPath)
          /\ NodeGetAttr(n, item)
          /\ UNCHANGED <<cacheVars, wrapVars, extVars>>
    \/ \E n \in 1..Len(nodes), c \in CallInputs :
          /\ nodes[n].path = ChainPath
          /\ Invoke(n, c.method, c.kwargs, c.status, c.body)
          /\ UNCHANGED <<cacheVars, wrapVars, extVars>>
    \/ \E c \in CallInputs :
          call("a", "b", "v1", c.method, c.kwargs, c.status, c.body) /\ UNCHANGED <<cacheVars, wrapVars, extVars>>

InitCall == InitApi /\ ~strict /\ connKey = api_key /\ InitCache /\ IdleWrap /\ IdleExt

\* Requests: nodes for one path, invoked with each of the inputs above.
SpecCall == InitCall /\ [][NextCall]_vars

NextWrap ==
    \/ \E key \in Keys : GetAttr(key) /\ UNCHANGED <<cacheVars, apiVars, extVars>>
    \/ \E key \in Keys : GetItem(key) /\ UNCHANGED <<cacheVars, apiVars, extVars>>
    \/ \E key \in Keys : Contains(key) /\ UNCHANGED <<cacheVars, apiVars, extVars>>
    \/ \E i \in 1..(Len(cur.items) + 1) : Index(i) /\ UNCHANGED <<cacheVars, apiVars, extVars>>
    \/ Restart /\ UNCHANGED <<cacheVars, apiVars, extVars>>

InitWrapOnly == InitWrap /\ InitCache /\ IdleApi /\ IdleExt

\* Wrappers: chains of attribute, index and membership reads on each structure.
SpecWrap == InitWrapOnly /\ [][NextWrap]_vars

NextStrict ==
    \/ \E name \in Names : RootGetAttr(name) /\ UNCHANGED <<cacheVars, wrapVars, extVars>>
    \/ \E n \in 1..Len(nodes), item \in Names :
          NodeGetAttr(n, item) /\ UNCHANGED <<cacheVars, wrapVars, extVars>>
    \/ \E name \in SetNames : RootSetAttr(name) /\ UNCHANGED <<cacheVars, wrapVars, extVars>>
    \/ \E n \in 1..Len(nodes), r \in FewResponses :
          Invoke(n, GET, <<>>, r.status, r.body) /\ UNCHANGED <<cacheVars, wrapVars, extVars>>

InitStrict ==
    InitApi /\ autopop /\ api_key = "None" /\ connKey = "None" /\ InitCache /\ IdleWrap /\ IdleExt

\* Roots built from the manifest, strict and not: reads by any name at any
\* level, assignments on the root, invocations.
SpecStrict == InitStrict /\ [][NextStrict]_vars

NextNotion == make_request /\ UNCHANGED <<steamVars, singVars, chunkVars, appVars>>

InitNotionOnly == InitNotion /\ IdleSteam /\ IdleSing /\ IdleChunk /\ IdleApp

NextChunk ==
    \/ Chunk /\ UNCHANGED <<steamVars, notionVars, singVars, appVars>>
    \/ \E precache_setting \in BOOLEAN, failing \in 0..MaxLen :
          friends(precache_setting, failing) /\ UNCHANGED <<steamVars, notionVars, singVars, appVars>>

InitChunkOnly == InitChunk /\ IdleSteam /\ IdleNotion /\ IdleSing /\ IdleApp

\* chunker on every sequence and size, and the prefetch that uses it.
SpecChunk == InitChunkOnly /\ [][NextChunk]_vars

apiRest == <<api_key, autopop, strict, rootDict, rootAttrs, nodes>>

NextConn ==
    \/ \E key \in ConnKeys, setting \in PrecacheSettings, validate_key \in BOOLEAN,
          status \in {200, 403, 500} :
          /\ Construct(key, setting, validate_key, status)
          /\ UNCHANGED <<cacheVars, wrapVars, notionVars, chunkVars, appVars, apiRest, res>>
    \/ \E key \in ConnKeys :
          reset(key) /\ UNCHANGED <<cacheVars, wrapVars, notionVars, chunkVars, appVars, apiRest, res>>
    \/ \E r \in FewResponses :
          /\ Stored(instance)
          /\ call("a", "b", "v1", GET, <<>>, r.status, r.body)
          /\ UNCHANGED <<cacheVars, wrapVars, notionVars, chunkVars, appVars, singVars>>

InitConn == InitSing /\ IdleApi /\ InitCache /\ IdleWrap /\ IdleNotion /\ IdleChunk /\ IdleApp

\* The connection: constructions with any arguments, resets and calls.
SpecConn == InitConn /\ [][NextConn]_vars

\* The request helper: one call for each max_retries and each run of responses.
SpecNotion == InitNotionOnly /\ [][NextNotion]_vars

oldVars == <<steamVars, notionVars, singVars, chunkVars>>
IdleOld == IdleSteam /\ IdleNotion /\ IdleSing /\ IdleChunk

NextImport ==
    \/ connect_database /\ UNCHANGED <<oldVars, fetchVars, retryVars, lateVars>>
    \/ \E ok \in BOOLEAN : create_game_page(ok) /\ UNCHANGED <<oldVars, fetchVars, retryVars, lateVars>>
    \/ import_game_list /\ UNCHANGED <<oldVars, fetchVars, retryVars, lateVars>>
    \/ \E NOTION_DATABASE_ID \in BOOLEAN, ok \in BOOLEAN :
          main(NOTION_DATABASE_ID, ok) /\ UNCHANGED <<oldVars, fetchVars, retryVars, lateVars>>

InitImportOnly == InitImport /\ IdleOld /\ IdleFetch /\ IdleRetry /\ IdleLate

\* The import of every short list of games, called on the client before and
\* after a database is connected, and the driver's run.
SpecImport == InitImportOnly /\ [][NextImport]_vars

NextFetch ==
    \/ \E force \in BOOLEAN, failing \in 0..MaxLib :
          get_games_list(force, failing) /\ UNCHANGED <<oldVars, importVars, retryVars, lateVars>>
    \/ NewRun /\ UNCHANGED <<oldVars, importVars, retryVars, lateVars>>
    \/ RemoveCache /\ UNCHANGED <<oldVars, importVars, retryVars, lateVars>>

InitFetchOnly == InitFetch /\ IdleOld /\ IdleImport /\ IdleRetry /\ IdleLate

\* Runs of the program over one library with one set of options: fetches
\* that end or are interrupted, new runs over the file left behind.
SpecFetch == InitFetchOnly /\ [][NextFetch]_vars

NextRetry == Wrapped /\ UNCHANGED <<oldVars, importVars, fetchVars, lateVars>>

InitRetryOnly == InitRetry /\ IdleOld /\ IdleImport /\ IdleFetch /\ IdleLate

\* One call of a decorated function for each set of arguments of retry and
\* each run of outcomes of the function.
SpecRetry == InitRetryOnly /\ [][NextRetry]_vars

midVars == <<importVars, fetchVars, retryVars>>
IdleMid == IdleImport /\ IdleFetch /\ IdleRetry

NextAch ==
    \/ achievements /\ UNCHANGED <<oldVars, midVars, thrVars, runVars>>
    \/ \E a \in AchSet : is_hidden(a) /\ UNCHANGED <<oldVars, midVars, thrVars, runVars>>
    \/ \E a \in AchSet : is_unlocked(a) /\ UNCHANGED <<oldVars, midVars, thrVars, runVars>>

InitAchOnly == InitAch /\ IdleOld /\ IdleMid /\ IdleThreads /\ IdleRun

\* One app: its achievements are read, then their properties.
SpecAch == InitAchOnly /\ [][NextAch]_vars

thrRest == <<cacheVars, wrapVars, notionVars, chunkVars, apiRest, res, midVars, achVars, runVars>>

NextThreads ==
    \/ \E t \in Threads : Call(t) /\ UNCHANGED thrRest
    \/ \E t \in Threads : Acquire(t) /\ UNCHANGED thrRest
    \/ \E t \in Threads : Try(t) /\ UNCHANGED thrRest
    \/ \E t \in Threads, ok \in BOOLEAN : Build(t, ok) /\ UNCHANGED thrRest

InitThreadsOnly ==
    InitThreads /\ InitSing /\ IdleApi /\ InitCache /\ IdleWrap /\ IdleNotion /\ IdleChunk
                /\ IdleMid /\ IdleAch /\ IdleRun

\* Threads that call APIConnection(...) again and again, in any interleaving.
SpecThreads == InitThreadsOnly /\ [][NextThreads]_vars

runRest == <<oldVars, midVars, achVars, thrVars>>

NextRun ==
    \/ ConfigCheck /\ UNCHANGED runRest
    \/ NotionLogin /\ UNCHANGED runRest
    \/ \E ok \in BOOLEAN : SteamLogin(ok) /\ UNCHANGED runRest
    \/ \E ok \in BOOLEAN, n \in 0..MaxRunGames, wrote \in BOOLEAN :
          FetchLibrary(ok, n, wrote) /\ UNCHANGED runRest
    \/ \E ok \in BOOLEAN : ConnectOrCreate(ok) /\ UNCHANGED runRest
    \/ \E ok \in BOOLEAN, e \in 0..MaxRunGames :
          e <= game_n /\ Import(ok, e) /\ UNCHANGED runRest
    \/ \E ok \in BOOLEAN : DeleteCache(ok) /\ UNCHANGED runRest
    \/ Except /\ UNCHANGED runRest

InitRunOnly == InitRun /\ IdleOld /\ IdleMid /\ IdleAch /\ IdleThreads

\* The driver's run, for every setting and with each step failing or not.
SpecRun == InitRunOnly /\ [][NextRun]_vars







(***************************************************************************)
(* Claims about the cache (checked under SpecCache)                        *)
(***************************************************************************)
\* The entry that o's mapping holds for p after the operation.
EntryNow(o, p) == cache_of(o)[p]

\* C1 (TTL expiry): a read of a property with ttl = T > 0 at time t that finds
\* an entry captured at t0 returns the cached value, invokes the wrapped
\* function zero times and leaves the entry alone when t - t0 <= T; when
\* t - t0 > T it invokes the function exactly once and, the function having
\* returned, replaces the entry with (new value, t) and returns the new value.
C1_TtlExpiry ==
    (last.op = "read" /\ Ttl(last.prop) > 0 /\ last.pre.present) =>
        IF last.t - last.pre.ts <= Ttl(last.prop)
        THEN /\ last.calls = 0
             /\ last.ret = last.pre.value
             /\ EntryNow(last.obj, last.prop) = last.pre
        ELSE /\ last.calls = 1
             /\ last.raised = "no" =>
                  /\ last.ret = fget(last.obj, last.t)
                  /\ EntryNow(last.obj, last.prop) = Entry(last.ret, last.t)

\* C1 witness: a read on the instance that fetched the entry, made after more
\* than T ticks, has invoked the function again and refreshed the entry.
C1_Witness ==
    /\ last.op = "read" /\ Ttl(last.prop) > 0 /\ last.pre.present
    /\ last.pre.value = fget(last.obj, last.pre.ts)
    /\ last.t - last.pre.ts > Ttl(last.prop)
    /\ last.calls = 1 /\ last.raised = "no"
    /\ EntryNow(last.obj, last.prop) = Entry(fget(last.obj, last.t), last.t)

C3_PerInstance ==
    (last.op = "read" /\ last.raised = "no") => last.ret.of = last.obj

(***************************************************************************)
(* Claims about the resolver (checked under SpecApi and SpecCall)          *)
(***************************************************************************)
RECURSIVE PathText(_)
\* The text 'a/b/c/' for the names a, b, c.
PathText(names) ==
    IF Len(names) = 0 THEN <<>> ELSE <<Head(names), "/">> \o PathText(Tail(names))

\* C4 (path determinism): under a non-strict root, the node that a read of
\* name x off the root or off a node gives stands for the reads that led there
\* followed by x, and the URL of every node is the base B followed by
\* 'a/b/c/' for the names a, b, c read to reach it, so that nodes built by
\* re-reading the same names have the same URL, confirmed or not.
C4_PathDeterminism ==
    ~strict =>
        /\ \A n \in 1..Len(nodes) : Str(nodes, n) = <<Base>> \o PathText(nodes[n].path)
        /\ (res.op = "getattr" /\ res.raised = "no") =>
              nodes[res.node].path =
                  (IF res.from = 0 THEN <<>> ELSE nodes[res.from].path) \o <<res.name>>

\* C4 witness: the same three names were read twice, giving two nodes, one of
\* them confirmed by a call and one not, and both have the URL B a/b/a/.
C4_Witness ==
    /\ ~strict
    /\ \E m, n \in 1..Len(nodes) :
          /\ m # n
          /\ nodes[m].path = <<"a", "b", "a">> /\ nodes[n].path = <<"a", "b", "a">>
          /\ nodes[m].is_registered /\ ~nodes[n].is_registered
          /\ Str(nodes, m) = <<Base, "a", "/", "b", "/", "a", "/">>
          /\ Str(nodes, n) = Str(nodes, m)

\* The text is the elements of xs with a comma between neighbours.
IsJoined(text, xs) ==
    IF Len(xs) = 0 THEN text = <<>>
    ELSE /\ Len(text) = 2 * Len(xs) - 1
         /\ \A i \in 1..Len(xs) : text[2 * i - 1] = xs[i]
         /\ \A i \in 1..(Len(xs) - 1) : text[2 * i] = ","

\* out is what val is sent as: a list joined by commas, a boolean as 1 or 0.
SentAs(val, out) ==
    IF val.kind = "list" THEN out.kind = "str" /\ IsJoined(out.v, val.v)
    ELSE IF val.kind = "bool" THEN out = VInt(IF val = VBool(TRUE) THEN "1" ELSE "0")
    ELSE out = val

KeysOf(kw) == {kw[i].k : i \in 1..Len(kw)}

\* The parameters of a request: the form data of a POST, else the query parameters.
ParamsOf(rq) == IF rq.verb = POST THEN rq.data ELSE rq.params

\* C5 (request formation): the request of an invocation of a node goes to the
\* base followed by the node's names, each followed by '/'; its parameters are
\* the caller's, lists joined by commas and booleans as 1/0, with format=json
\* when the caller gave no format and key=K when the root holds a credential K
\* (in place of a key the caller gave); its verb is the node's bound method
\* when it has one, else the caller's.
C5_RequestFormation ==
    res.op = "call" =>
        LET rq == res.sent[1]
            P  == res.kwargs
            Q  == ParamsOf(rq)
        IN  /\ rq.path = <<Base>> \o PathText(nodes[res.node].path)
            /\ rq.verb = IF nodes[res.node].method # "None"
                         THEN nodes[res.node].method ELSE res.method
            /\ KeysOf(Q) = KeysOf(P) \cup {"format"}
                             \cup (IF api_key # "None" THEN {"key"} ELSE {})
            /\ Len(Q) = Cardinality(KeysOf(Q))
            /\ \A i \in 1..Len(P) :
                  \/ P[i].k = "key" /\ api_key # "None"
                  \/ SentAs(P[i].v, GetKw(Q, P[i].k))
            /\ ~HasKw(P, "format") => GetKw(Q, "format") = VStr("json")
            /\ api_key # "None" => GetKw(Q, "key") = VStr(api_key)

\* C5 witness: a node bound to GET by the manifest was invoked with POST, a
\* boolean and a key of the caller's under a root holding K; the request left
\* by GET with flag=0, format=json and key=K.
C5_Witness ==
    /\ res.op = "call" /\ api_key = "K" /\ res.method = POST
    /\ nodes[res.node].method = GET /\ nodes[res.node].path = ChainPath
    /\ res.kwargs = <<Kw("key", VStr("mine")), Kw("flag", VBool(FALSE))>>
    /\ res.sent[1].verb = GET
    /\ res.sent[1].params =
          <<Kw("key", VStr("K")), Kw("flag", VInt("0")), Kw("format", VStr("json"))>>

\* C6 (one request): every invocation of a node and every APIConnection.call
\* sends exactly one HTTP request, whatever the arguments, the status of the
\* response and the outcome of the call.
C6_OneRequest == res.op \in {"call", "conncall"} => Len(res.sent) = 1

\* C6 witness: an invocation whose registration raised KeyError after a
\* successful response had sent one request.
C6_Witness ==
    /\ res.op = "call" /\ res.raised = "KeyError"
    /\ res.status = 200 /\ Len(res.sent) = 1

RECURSIVE Plain(_)
RECURSIVE PlainItems(_)
\* The plain structure a wrapped value stands for.
Plain(v) ==
    IF v.t = "w" THEN JO(v.keys, PlainItems(v.items))
    ELSE IF v.t = "a" THEN JA(PlainItems(v.items))
    ELSE v
PlainItems(items) ==
    IF Len(items) = 0 THEN <<>> ELSE <<Plain(Head(items))>> \o PlainItems(Tail(items))

\* The response passed errors.check and the node could be registered.
Succeeded ==
    /\ res.op \in {"call", "conncall"}
    /\ res.status \div 100 \notin {4, 5}
    /\ res.raised \notin {"KeyError", "AttributeError"}

\* C7 (envelope unwrapping): a successful call with automatic parsing returns
\* a wrapper; it wraps the inner value when the body's only key is 'response',
\* and the whole body otherwise.
C7_EnvelopeUnwrapping ==
    (Succeeded /\ res.auto) =>
        /\ res.raised = "no"
        /\ res.ret.t = "w"
        /\ Plain(res.ret) = IF res.body.keys = <<"response">>
                            THEN res.body.items[1] ELSE res.body

\* The part of C7 that the code keeps: the same, for bodies whose enveloped
\* value is an object.
EnvelopeOfObject ==
    (Succeeded /\ res.auto
       /\ (res.body.keys = <<"response">> => res.body.items[1].t = "o")) =>
        /\ res.raised = "no"
        /\ res.ret.t = "w"
        /\ Plain(res.ret) = IF res.body.keys = <<"response">>
                            THEN res.body.items[1] ELSE res.body

StatusCodes == 100..599

\* A request URL with and without a key parameter.
UrlWith(key) ==
    <<Base, "a", "/", "?", "format", "=", "json">>
        \o (IF key THEN <<"&", "key", "=", "K">> ELSE <<>>)

\* The category the claim names for a status and the presence of a key.
Category(status, key) ==
    CASE status = 404 -> "APINotFound"
      [] status = 401 -> "APIUnauthorized"
      [] status = 403 -> IF key THEN "APIPrivate" ELSE "APIKeyRequired"
      [] status = 400 -> "APIBadCall"
      [] status \in 400..499 /\ status \notin {400, 401, 403, 404} -> "APIFailure"
      [] status \in 500..599 -> "APIError"
      [] OTHER -> "no"

Categories == {"APINotFound", "APIUnauthorized", "APIPrivate", "APIKeyRequired",
               "APIBadCall", "APIFailure", "APIError"}

\* C10 (error classification): check is a total function of the status and of
\* whether the URL carries a key parameter, with the categories of the claim;
\* the seven categories of 400, 401, 403 with and without key, 404, 429 and
\* 500 are pairwise distinct; and a call raises the category of its response,
\* or none of them when the status is outside 4xx and 5xx.
C10_Classification ==
    /\ \A status \in StatusCodes, key \in BOOLEAN :
          check(status, UrlWith(key)) = Category(status, key)
    /\ Cardinality({check(400, UrlWith(FALSE)), check(401, UrlWith(FALSE)),
                    check(403, UrlWith(TRUE)), check(403, UrlWith(FALSE)),
                    check(404, UrlWith(FALSE)), check(429, UrlWith(FALSE)),
                    check(500, UrlWith(FALSE))}) = 7
    /\ res.op \in {"call", "conncall"} =>
          LET rq == res.sent[1]
              key == rq.verb # POST /\ HasKw(rq.params, "key")
          IN  IF Category(res.status, key) # "no"
              THEN res.raised = Category(res.status, key)
              ELSE res.raised \notin Categories

\* C10 witness: a GET that carried key=K after format=json was answered 403
\* and raised the insufficient-privilege error.
C10_Witness ==
    /\ res.op = "call" /\ res.status = 403
    /\ res.sent[1].verb = GET /\ HasKw(res.sent[1].params, "key")
    /\ res.raised = "APIPrivate"

\* C12 (registration unobservable): an invocation whose response passes
\* errors.check gives the caller what the envelope rule and the format make
\* of the body, whatever nodes were confirmed before, a second node built for
\* an already confirmed path included.
C12_RegistrationUnobservable ==
    (res.op = "call" /\ res.status \div 100 \notin {4, 5}) =>
        LET result == Result(res.auto, ParamsOf(res.sent[1]), res.body)
        IN  /\ res.raised = Raised(result)
            /\ res.ret = Returned(result)

\* The body as a call without automatic parsing hands it over: the parsed
\* JSON or the raw content, never an APIResponse and never nothing.
IsRawBody(ret) == ret \in {res.body, JContent}

\* C13 (format override): a successful call that was given a format argument
\* does no automatic parsing and returns the body of the response unwrapped,
\* by a resolver node and by APIConnection.call alike.
C13_FormatOverride ==
    (Succeeded /\ HasKw(res.kwargs, "format")) =>
        /\ ~res.auto
        /\ res.raised = "no"
        /\ IsRawBody(res.ret)

\* The part of C13 that the code keeps: the same for resolver nodes alone.
FormatOverrideOfNode ==
    (Succeeded /\ res.op = "call" /\ HasKw(res.kwargs, "format")) =>
        /\ ~res.auto
        /\ res.raised = "no"
        /\ IsRawBody(res.ret)

\* The paths the manifest describes: a, a.b and a.b.v1.
InManifest(path) == IsPrefix(path, ChainPath)

\* C14 (strict mode): on a strict root a read of a name that leads to a path
\* outside the manifest is refused with AttributeError, off the root and off
\* every node, and every assignment of an attribute on the root is refused.
C14_StrictMode ==
    strict =>
        /\ res.op = "getattr" =>
              LET path == (IF res.from = 0 THEN <<>> ELSE nodes[res.from].path) \o <<res.name>>
              IN  ~InManifest(path) => res.raised = "AttributeError"
        /\ res.op = "setattr" => res.raised = "AttributeError" /\ rootAttrs = {}

\* The part of C14 that the code keeps: the root refuses unknown interfaces
\* and assignments.
StrictAtRoot ==
    strict =>
        /\ (res.op = "getattr" /\ res.from = 0 /\ res.name # "a") =>
              res.raised = "AttributeError"
        /\ res.op = "setattr" => res.raised = "AttributeError" /\ rootAttrs = {}

(***************************************************************************)
(* Claims about the wrapper (checked under SpecWrap)                       *)
(***************************************************************************)
RECURSIVE NoRaw(_)
\* No dict is left inside a wrapped value.
NoRaw(v) == v.t # "o" /\ \A i \in 1..Len(v.items) : NoRaw(v.items[i])

\* C8 (wrapper round-trip): the wrapper of a structure holds no unwrapped
\* dict at any depth, and each attribute read or list index along a chain that
\* the original structure has returns what the direct lookup on the original
\* gives.
C8_RoundTrip ==
    /\ NoRaw(wobj)
    /\ (wres.op \in {"attr", "idx"} /\ wres.had) =>
          /\ wres.raised = "no"
          /\ Plain(wres.ret) = wres.want

\* C9 (access styles): for the key string k of a read of a wrapper, k is a
\* member of the wrapper exactly when the attribute read of k succeeds and
\* exactly when wrapper[k] succeeds; the two reads return the same value; for
\* an absent k the attribute read raises AttributeError and the index read
\* KeyError.
C9_AccessStyles ==
    wres.op \in {"attr", "item", "in"} =>
        LET k == wres.key
            a == getattribute(wres.on, k)
            i == getitem(wres.on, k)
            m == contains(wres.on, k)
        IN  /\ wres.op = "attr" => Raised(a) = wres.raised
            /\ wres.op = "item" => Raised(i) = wres.raised
            /\ m = wres.member
            /\ m <=> a.t # "raise"
            /\ m <=> i.t # "raise"
            /\ m => a = i
            /\ ~m => a = Raise("AttributeError") /\ i = Raise("KeyError")

(***************************************************************************)
(* Claims about the request helper (checked under SpecNotion)              *)
(***************************************************************************)
\* The response that ended the call: what its last request met.
LastMet == nin.meets[nout.sent]

\* C11 (errors carry the status): a call that ends on a response whose status
\* is not 2xx raises an error whose code is that status; its message holds the
\* message of a JSON body that has one, and a generic text built from the
\* status when the body is empty or not JSON.
C11_ErrorCarriesStatus ==
    (nout.called /\ nout.sent > 0 /\ LastMet.kind = "resp"
        /\ LastMet.status \notin 200..299) =>
        /\ nout.raised
        /\ nout.error.code = LastMet.status
        /\ LastMet.body = "message" /\ LastMet.status # 429 =>
              \E i \in 1..Len(nout.error.message) : nout.error.message[i] = BodyMessage
        /\ LastMet.body \in {"empty", "notjson"} /\ LastMet.status # 429 =>
              \E i \in 1..Len(nout.error.message) : nout.error.message[i] = "HTTP "

(***************************************************************************)
(* Claims about the singleton connection (checked under SpecConn)          *)
(***************************************************************************)
\* C15 (singleton connection): once an instance is stored, no step replaces
\* it or changes its precache setting, a construction returns that instance
\* whatever its arguments, and only reset changes the credential.
C15_SingletonConnection ==
    [][instance # 0 =>
          /\ instance' = instance
          /\ precache' = precache
          /\ connKey' # connKey => sres'.op = "reset"
          /\ (sres' # sres /\ sres'.op = "construct") =>
                sres'.ret = instance /\ sres'.raised = "no"]_vars

\* C15 witness: a later construction, given another key and precache = False,
\* returned the stored instance, whose key and precache are as before.
C15_Witness ==
    /\ sres.op = "construct" /\ sres.again
    /\ sres.ret = instance /\ instance # 0
    /\ sres.key = "K2" /\ connKey = "K"
    /\ sres.setting = "False" /\ precache

(***************************************************************************)
(* Claims about chunker (checked under SpecChunk)                          *)
(***************************************************************************)
RECURSIVE Flatten(_)
\* The chunks one after the other.
Flatten(chunks) == IF Len(chunks) = 0 THEN <<>> ELSE Head(chunks) \o Flatten(Tail(chunks))

\* How many requests hold the id.
RequestsWith(id) ==
    Cardinality({i \in 1..Len(cout.chunks) :
                    \E j \in 1..Len(cout.chunks[i]) : cout.chunks[i][j] = id})

\* The 720 ids of the example, in chunks of 350.
ExampleLengths ==
    LET chunks == chunker([i \in 1..720 |-> i], 350)
    IN  [i \in 1..Len(chunks) |-> Len(chunks[i])]

\* C16 (chunking): chunker gives ceil(n/s) chunks, all of length s but the
\* last, which has 1 to s elements, and the chunks in order make up the
\* sequence again; 720 ids in chunks of 350 give 350, 350, 20. The prefetch
\* sends no request of more than s ids and no id in two requests, and with
\* precache on and no failing call every friend id is in exactly one request.
C16_Chunking ==
    LET n == Len(cin.seq)
        s == cin.size
        ch == cout.chunks
    IN  /\ cout.op = "chunker" =>
              /\ Len(ch) = (n + s - 1) \div s
              /\ \A i \in 1..(Len(ch) - 1) : Len(ch[i]) = s
              /\ Len(ch) > 0 => Len(ch[Len(ch)]) \in 1..s
              /\ Flatten(ch) = cin.seq
        /\ ExampleLengths = <<350, 350, 20>>
        /\ cout.op = "friends" =>
              /\ \A i \in 1..Len(ch) : Len(ch[i]) \in 1..s
              /\ \A id \in Ids : RequestsWith(id) <= 1
              /\ (cout.precached /\ ~cout.raised) =>
                    \A k \in 1..n : RequestsWith(cin.seq[k]) = 1

\* C16 witness: four elements in chunks of three gave a chunk of three and a
\* chunk of one.
C16_Witness ==
    /\ cout.op = "chunker" /\ Len(cin.seq) = 4 /\ cin.size = 3
    /\ Len(cout.chunks) = 2
    /\ Len(cout.chunks[1]) = 3 /\ Len(cout.chunks[2]) = 1

\* The delay that attempt k of the last call finds: 1, doubled by each
\* network failure before it.
DelayAt(k) == 2 ^ Cardinality({j \in 1..(k - 1) : nin.meets[j].kind # "resp"})

\* Request k of the last call met a 429.
RateLimited(k) == nin.meets[k].kind = "resp" /\ nin.meets[k].status = 429

\* C18: rate-limit handling is bounded: whatever the requests meet,
\* _make_request sends at most max_retries requests; on a 429 that is not
\* the last attempt it sleeps for the Retry-After value (the current delay
\* when the header is absent or no integer) and sends the request again, and
\* when the last attempt is a 429 too it raises and sends nothing more.
C18_RateLimitBounded ==
    nout.called =>
        /\ nout.sent <= nin.max_retries
        /\ \A k \in 1..nout.sent :
              (RateLimited(k) /\ k < nin.max_retries) =>
                  /\ nout.sent > k
                  /\ Len(nout.sleeps) >= k
                  /\ nout.sleeps[k] = IF nin.meets[k].retry_after = "int"
                                      THEN RetryAfterSeconds ELSE DelayAt(k)
        /\ (nout.sent = nin.max_retries /\ RateLimited(nin.max_retries)) =>
              /\ nout.raised
              /\ nout.returned = 0

\* Three attempts: a network failure, a 429 without the header, a last 429.
C18_Witness ==
    /\ nout.called /\ nin.max_retries = MaxRetries /\ nout.sent = MaxRetries
    /\ nin.meets[1].kind = "Timeout"
    /\ RateLimited(2) /\ nin.meets[2].retry_after = "absent"
    /\ RateLimited(MaxRetries)
    /\ nout.raised
    /\ nout.sleeps[2] = 2

\* Request k of the last call met an error status other than 429.
ErrorStatus(k) ==
    nin.meets[k].kind = "resp" /\ nin.meets[k].status >= 400 /\ nin.meets[k].status # 429

\* C29: _make_request called with max_retries >= 1 has only two outcomes for
\* any sequence of responses and network failures: it returns a response
\* whose status is below 400, or it raises NotionApiError; it never returns
\* an error response and never returns None, and a non-429 error status is
\* raised on the first occurrence without a retry.
C29_TwoOutcomes ==
    nout.called =>
        /\ \/ ~nout.raised /\ nout.returned > 0 /\ nout.returned < 400
           \/ nout.raised /\ nout.error.cls = "NotionApiError" /\ nout.returned = 0
        /\ nout.sent >= 1
        /\ \A k \in 1..nout.sent :
              ErrorStatus(k) =>
                  /\ nout.sent = k
                  /\ nout.raised
                  /\ Len(nout.sleeps) = k - 1

\* A network failure, then a 404: the second request is the last one and
\* the call raises.
C29_Witness ==
    /\ nout.called /\ nin.max_retries = MaxRetries
    /\ nin.meets[1].kind = "ConnectionError"
    /\ ErrorStatus(2)
    /\ nout.sent = 2 /\ nout.raised /\ nout.error.cls = "NotionApiError"

(***************************************************************************)
(* Claims about the resolved flag                                          *)
(***************************************************************************)
\* The exceptions of errors.check.
CheckErrors == {"APINotFound", "APIUnauthorized", "APIPrivate", "APIKeyRequired",
                "APIBadCall", "APIFailure", "APIError"}

\* A step in which an invocation's response is classified as an error
\* changes no flag and registers no child.
ErrorBeforeBookkeeping ==
    (res'.op = "call" /\ res'.raised \in CheckErrors) =>
        /\ Len(nodes') = Len(nodes)
        /\ rootDict' = rootDict
        /\ \A n \in 1..Len(nodes) :
              /\ nodes'[n].is_registered = nodes[n].is_registered
              /\ nodes'[n].dict = nodes[n].dict

\* A step in which a node's flag becomes true is an invocation, with a
\* response that is no error, of the node or of a node below it.
FlagAfterRoundTrip ==
    \A n \in 1..Len(nodes') :
        (nodes'[n].is_registered /\ (n > Len(nodes) \/ ~nodes[n].is_registered)) =>
            /\ res'.op = "call"
            /\ res'.status \div 100 \notin {4, 5}
            /\ res'.sent # <<>>
            /\ IsPrefix(nodes'[n].path, nodes'[res'.node].path)

\* C23 as stated: an invocation whose response is classified as an error
\* changes no resolved flag and registers no child, and a node whose flag is
\* true has had a successful request sent through its path: no node has the
\* flag before a request.
C23_AsStated ==
    /\ \A n \in 1..Len(nodes) : ~nodes[n].is_registered
    /\ [][ErrorBeforeBookkeeping /\ FlagAfterRoundTrip]_vars

\* C23: an invocation whose response is classified as an error raises before
\* any bookkeeping: no resolved flag changes and no child is registered; a
\* node whose flag is true was built and registered from the manifest by
\* autopopulation, or a successful request was sent through its path.
C23_ResolvedAfterRoundTrip ==
    /\ \A n \in 1..Len(nodes) : nodes[n].is_registered => autopop
    /\ [][ErrorBeforeBookkeeping /\ FlagAfterRoundTrip]_vars

\* Without autopopulation: a node that an invocation marked, and a failed
\* invocation of another node after it.
C23_Witness ==
    /\ ~autopop
    /\ res.op = "call" /\ res.raised \in CheckErrors
    /\ ~nodes[res.node].is_registered
    /\ \E n \in 1..Len(nodes) : nodes[n].is_registered

(***************************************************************************)
(* Claims about the batch import                                           *)
(***************************************************************************)
\* The positions of the games of a finished import whose create or update
\* was attempted and failed.
FailedPositions(import) ==
    LET Failed(i) == /\ import.ops[i].op \in {"add", "update"}
                     /\ iin.outcome[i] = "fail"
    IN  SelectSeq([i \in 1..Len(import.ops) |-> i], Failed)

\* The import went through the whole list in order and returned the games
\* that failed.
WholeList(import) ==
    /\ ~import.raised
    /\ Len(import.ops) = Len(iin.game_list)
    /\ \A i \in 1..Len(import.ops) : import.ops[i].game = iin.game_list[i]
    /\ import.errors = FailedPositions(import)

\* C17: batch isolation: in import_game_list a failure to create or update
\* one game never stops the loop; every game of the input list is processed
\* in order, the returned list holds exactly the games whose create or update
\* failed, and the driver reports them together at the end.
C17_BatchIsolation ==
    /\ imp.called => WholeList(imp)
    /\ (drv.ran /\ drv.import.called) =>
          /\ WholeList(drv.import)
          /\ drv.reported
          /\ drv.printed = drv.import.errors

\* On a client with a database, the import goes through the whole list and
\* returns the games that failed.
BatchIsolationWithDatabase ==
    /\ (imp.called /\ imp.db # "None") => WholeList(imp)
    /\ (drv.ran /\ drv.import.called) => WholeList(drv.import)

\* The driver reports the failed games when at least one game did not fail.
ReportWhenSomeImported ==
    (drv.ran /\ drv.import.called /\
     Len(drv.import.errors) < Len(iin.game_list)) =>
        drv.reported /\ drv.printed = drv.import.errors

\* An import on a client with a database in which a game failed and a later
\* game was created.
BatchIsolationExample ==
    /\ imp.called /\ imp.db # "None"
    /\ \E i, j \in 1..Len(imp.ops) :
          i < j /\ imp.ops[i].ret = "False" /\ imp.ops[j].ret = "True"
                /\ imp.ops[j].op = "add"

\* Every game of the driver's import failed.
AllFailed ==
    /\ drv.ran /\ drv.import.called /\ ~drv.import.raised
    /\ Len(drv.import.errors) = Len(iin.game_list)

\* The import on a client without a database.
NoDatabase == imp.called /\ imp.db = "None" /\ iin.game_list # <<>>

\* The imports made: the direct call and the driver's.
Imports == {i \in {imp, drv.import} : i.called}

EmptyUpdate ==
    \E import \in Imports : \E i \in 1..Len(import.ops) :
        import.ops[i].op = "update" /\ import.ops[i].sent = "none"

\* C22: lookup-failure fallback: if the query of the existing games of a
\* connected database fails, import_game_list does not abort; both update
\* mode and skip-duplicates are off for the whole run, and the creation of
\* a page is attempted for every game of the list: no game is updated and
\* none is skipped.
C22_LookupFallback ==
    \A import \in Imports :
        (import.db # "None" /\ import.lookup = "failed") =>
            /\ ~import.raised
            /\ ~import.skip /\ ~import.update
            /\ Len(import.ops) = Len(iin.game_list)
            /\ \A i \in 1..Len(import.ops) :
                  /\ import.ops[i].game = iin.game_list[i]
                  /\ ~import.ops[i].skip /\ ~import.ops[i].update
                  /\ import.ops[i].op = "add"
                  /\ iin.outcome[i] # "fail" =>
                        import.ops[i].sent = "POST" /\ import.ops[i].ret = "True"
            /\ import.counts.updated = 0 /\ import.counts.skipped = 0

\* The driver's import over a database whose query failed, with games.
C22_Witness ==
    /\ drv.ran /\ drv.import.called /\ drv.import.lookup = "failed"
    /\ iin.query.raised
    /\ Len(drv.import.ops) = MaxGames

\* Game i of an import had a page created for it.
Created(import, i) ==
    import.ops[i].op = "add" /\ import.ops[i].sent = "POST" /\ import.ops[i].ret = "True"

\* C26: in skip-duplicates mode no duplicate page is produced: after
\* import_game_list returns, no page was created for a name that already had
\* a page in the database, and no name has more than one page created during
\* the run, also when the list holds two games of the same name.
C26_NoDuplicatePage ==
    \A import \in Imports :
        (import.skip /\ ~import.raised) =>
            /\ \A i \in 1..Len(import.ops) :
                  Created(import, i) => import.ops[i].game \notin import.existing
            /\ \A i, j \in 1..Len(import.ops) :
                  (i < j /\ Created(import, i) /\ Created(import, j)) =>
                      import.ops[i].game # import.ops[j].game

\* The first half alone: no page is created for a name the query returned.
NoPageForExistingName ==
    \A import \in Imports :
        (import.skip /\ ~import.raised) =>
            \A i \in 1..Len(import.ops) :
                Created(import, i) => import.ops[i].game \notin import.existing

\* The positions of a sequence of positions.
Range(seq) == {seq[k] : k \in 1..Len(seq)}

\* C27: import accounting: when import_game_list returns, every game of the
\* list has been counted in exactly one of imported, updated, skipped or
\* errors, so imported + updated + skipped + len(errors) = len(game_list),
\* and errors holds no game that was created, updated or skipped.
C27_Accounting ==
    \A import \in Imports :
        ~import.raised =>
            LET n == Len(iin.game_list)
                ops == import.ops
                c == import.counts
                Good(kind) == {i \in 1..Len(ops) : ops[i].op = kind /\ ops[i].ret = "True"}
                Failed == {i \in 1..Len(ops) : ops[i].ret = "False"}
            IN  /\ Len(ops) = n
                /\ c.imported + c.updated + c.skipped + Len(import.errors) = n
                /\ c.imported = Cardinality(Good("add"))
                /\ c.updated = Cardinality(Good("update"))
                /\ c.skipped = Cardinality(Good("skip"))
                /\ Range(import.errors) = Failed
                /\ Len(import.errors) = Cardinality(Failed)
                /\ \A i \in 1..n : ops[i].ret \in {"True", "False"}

\* An import that returned with a game created, a game skipped and a game
\* in errors.
C27_Witness ==
    /\ imp.called /\ ~imp.raised
    /\ imp.counts.imported = 1 /\ imp.counts.skipped = 1 /\ Len(imp.errors) = 1
    /\ Len(iin.game_list) = MaxGames

(***************************************************************************)
(* Claims about the library fetch                                          *)
(***************************************************************************)
\* The games of the library that the skip options leave.
ExpectedGames ==
    {id \in 1..MaxLib :
        /\ ~(lib.skip_free_games /\ lib.kind[id] = "free")
        /\ ~(lib.skip_non_steam /\ ~lib.library_only /\ lib.kind[id] = "gone")
        /\ ~(lib.skip_free_games /\ ~lib.library_only /\ lib.kind[id] = "kept")}

\* The last call started a run over a file that holds a part of the
\* library, had no limit and ended.
Resumed ==
    /\ fres.called /\ ~fres.raised
    /\ lib.limit = 0
    /\ fres.had_games = {}
    /\ fres.had_file # {}
    /\ ExpectedGames \ fres.had_file # {}

\* The call returned the whole library, looked no cached game up in the
\* store and looked up every other game.
WholeLibrary ==
    /\ {fres.ret[i] : i \in 1..Len(fres.ret)} = ExpectedGames
    /\ \A i \in 1..Len(fres.lookups) : fres.lookups[i] \notin fres.had_file
    /\ ~lib.library_only =>
          \A id \in ExpectedGames \ fres.had_file :
             \E i \in 1..Len(fres.lookups) : fres.lookups[i] = id

\* C19: resumable fetch: when a run starts with a cache file that holds only
\* a part of the library, get_games_list returns every game of the library
\* that the skip options leave, reusing the cached records without fetching
\* them again and fetching the games that are not cached.
C19_ResumableFetch == Resumed => WholeLibrary

\* With force = True the fetch resumes over the file.
ResumeWhenForced == (Resumed /\ fres.force) => WholeLibrary

\* Without force the call that finds a record in the file returns the
\* cached games and fetches nothing.
CachedOnlyWithoutForce ==
    (Resumed /\ ~fres.force) =>
        /\ {fres.ret[i] : i \in 1..Len(fres.ret)} = fres.had_file
        /\ fres.lookups = <<>>

\* A run that resumed without force over a file with one game of three.
ResumedExample ==
    /\ Resumed /\ ~fres.force
    /\ Cardinality(fres.had_file) = 1
    /\ Cardinality(ExpectedGames) = MaxLib

\* A run that resumed with force.
ForcedExample == Resumed /\ fres.force /\ Cardinality(fres.had_file) = 1

(***************************************************************************)
(* Claims about the retry decorator                                        *)
(***************************************************************************)
\* Every call of f raises a listed exception that on_code lets through.
AlwaysFails ==
    \A i \in 1..(MaxRetryNum + 1) :
        /\ rin.calls[i].kind = "listed"
        /\ rin.on_code # 0 => rin.calls[i].code = rin.on_code

\* The failure came out as raise_on_error says.
Surfaced(out) ==
    out.surfaced = IF rin.raise_on_error THEN "listed" ELSE "None"

\* C20: retry budget: a function wrapped by retry(retry_num = n) that raises
\* a listed exception on every call is invoked n + 1 times, with a blocking
\* sleep between attempts, and only then is the failure surfaced: raised
\* again when raise_on_error is true, else None is returned; an exception
\* whose code differs from on_code is surfaced at once, without a retry.
C20_RetryBudget ==
    rout.called =>
        /\ AlwaysFails =>
              /\ rout.invocations = rin.retry_num + 1
              /\ Len(rout.sleeps) >= rin.retry_num
              /\ Surfaced(rout)
        /\ (rin.calls[1].kind = "listed" /\ rin.on_code # 0 /\
            rin.calls[1].code # rin.on_code) =>
              /\ rout.invocations = 1
              /\ rout.sleeps = <<>>
              /\ Surfaced(rout)

\* What the wrapper does: retry_num invocations in all, and none when
\* retry_num is 0 (the countdown over a float delay aside).
InvokedRetryNumTimes ==
    (rout.called /\ AlwaysFails /\ ~(rin.debug /\ rin.initial_wait.is_float)) =>
        /\ rout.invocations = rin.retry_num
        /\ rin.retry_num > 0 => Surfaced(rout)
        /\ rin.retry_num = 0 => rout.surfaced = "None"

\* An exception whose code differs from on_code is surfaced at once.
OtherCodeAtOnce ==
    (rout.called /\ rin.retry_num > 0 /\ rin.calls[1].kind = "listed" /\
     rin.on_code # 0 /\ rin.calls[1].code # rin.on_code) =>
        /\ rout.invocations = 1
        /\ rout.sleeps = <<>>
        /\ Surfaced(rout)

\* retry(retry_num = 3) around a function that always fails.
RetryExample ==
    /\ rout.called /\ AlwaysFails /\ rin.retry_num = MaxRetryNum
    /\ ~rin.debug /\ rin.raise_on_error
    /\ rout.surfaced = "listed"

(***************************************************************************)
(* Claims about the achievements                                           *)
(***************************************************************************)
\* C24: after SteamApp.achievements was read for an app associated with a
\* user, reading is_unlocked of a returned achievement issues no further API
\* request and agrees with the unlock list that was fetched, just as reading
\* is_hidden issues no further request.
C24_UnlockStateFilled ==
    (alist.built /\ ain.user /\ ares.op \in {"is_unlocked", "is_hidden"}) =>
        /\ ares.requests = 0
        /\ ares.raised = "no"
        /\ ares.op = "is_unlocked" => ares.ret = (ares.a \in ain.unlocked)
        /\ ares.op = "is_hidden" => ares.ret = (ares.a \in ain.hidden)

\* What does hold: is_hidden is read from the cache without a request, and
\* the unlock state lies under the key "is_achieved", which no property
\* reads.
HiddenFilled ==
    /\ (alist.built /\ ares.op = "is_hidden") =>
          ares.requests = 0 /\ ares.ret = (ares.a \in ain.hidden)
    /\ (alist.built /\ ain.user /\ ain.has_schema) =>
          \A a \in AchSet : acache[a]["is_achieved"].present

\* The first read of is_unlocked after achievements asks the API.
UnlockedAsksAgain ==
    /\ alist.built /\ ain.user
    /\ ares.op = "is_unlocked" /\ ares.requests = 1
    /\ areq[Len(areq)] = "GetPlayerAchievements"

Mapping(o) == IF hasattr_cache(o) THEN cache_of(o) ELSE EmptyDict

Requesting == {"steam_login", "fetch", "database", "import"}

Performed(step) == \E k \in 1..Len(steps) : steps[k] = step

\* C30: the run executes its steps in a fixed order (configuration check,
\* Notion login, Steam login, library fetch, database connect or create,
\* import, cache-file deletion), and a failure at any step ends the run with
\* exit code 1 without performing a later step: no request is made when a
\* required setting is missing or when SKIP_NON_STEAM and USE_ONLY_LIBRARY
\* are both set, no database is created or connected when the fetched library
\* is empty, and the cache file is deleted only after an import in which at
\* least one game was not an error.
C30_FixedOrder ==
    /\ IsPrefix(steps, Order)
    /\ failed # "none" =>
          /\ at \in {"except", "exit"}
          /\ at = "exit" => exit_code = 1
          /\ failed # "config" => steps[Len(steps)] = failed
          /\ failed = "config" => Len(steps) = 1
    /\ at = "exit" => exit_code \in {0, 1}
    /\ exit_code = 0 => failed = "none" /\ steps = Order
    /\ ~ConfigOk(env) => \A step \in Requesting : ~Performed(step)
    /\ (~env.NOTION_DATABASE_ID /\ ~env.NOTION_PAGE_ID) =>
          \A step \in Requesting : ~Performed(step)
    /\ game_n = 0 => ~Performed("database")
    /\ deleted =>
          /\ Performed("import")
          /\ error_n >= 0 /\ error_n < game_n
    /\ (Performed("delete_cache") /\ failed # "delete_cache") => ~cache_there

\* A run that ended with code 1 at the import, every game being an error,
\* with the cache file still there.
C30_Witness ==
    /\ at = "exit" /\ exit_code = 1 /\ failed = "import"
    /\ error_n = game_n /\ game_n = MaxRunGames
    /\ cache_there /\ ~deleted
    /\ steps[Len(steps)] = "import"

\* A run that went through every step and removed the cache file.
WholeRun == at = "exit" /\ exit_code = 0 /\ deleted /\ error_n > 0

====
